---- MODULE Spec2Model ----
(***************************************************************************)
(* Model of the file-mover tool: the import-reference resolution and       *)
(* rewrite engine and the batch orchestrator around it.                    *)
(*                                                                         *)
(* A path or an import literal is a record [d, e]: d is the sequence of    *)
(* its "/"-separated segments (the last one without its extension) and e   *)
(* the extension of the last segment ("" when it has none).  An absolute   *)
(* path starts with the segment ROOT.  A file's text is a sequence of      *)
(* chunks, each one import-like piece of text: the syntax-tree node the    *)
(* parser reports for it (node), the keyword text before the quote (kw),   *)
(* the white space between the two (sp), the quote (q), the literal (lit)  *)
(* and the text that closes it (close).                                    *)
(***************************************************************************)
EXTENDS Integers, Sequences, FiniteSets, TLC

----------------------------------------------------------------------------
(* Node's path module, on segment sequences *)

ROOT == "/"

P(d, e) == [d |-> d, e |-> e]

Front(s) == SubSeq(s, 1, Len(s) - 1)

Last(s) == s[Len(s)]

IsAbsolute(p) == Len(p.d) > 0 /\ p.d[1] = ROOT

RECURSIVE NormFold(_, _)
NormFold(rest, acc) ==
  IF rest = <<>> THEN acc
  ELSE LET h == Head(rest)
           t == Tail(rest)
       IN  IF h = "." THEN NormFold(t, acc)
           ELSE IF h = ".."
             THEN IF acc # <<>> /\ Last(acc) = ROOT THEN NormFold(t, acc)
                  ELSE IF acc # <<>> /\ Last(acc) # ".." THEN NormFold(t, Front(acc))
                  ELSE NormFold(t, Append(acc, ".."))
             ELSE NormFold(t, Append(acc, h))

pathNormalize(p) ==
  LET n == NormFold(p.d, <<>>)
  IN  [d |-> IF n = <<>> THEN <<".">> ELSE n, e |-> p.e]

\* process.cwd(), which the tool takes to be CONFIG.cwd
Cwd == P(<<ROOT, "project">>, "")

pathResolve(base, p) ==
  IF IsAbsolute(p) THEN pathNormalize(p)
  ELSE IF IsAbsolute(base) THEN pathNormalize(P(base.d \o p.d, p.e))
  ELSE pathNormalize(P(Cwd.d \o base.d \o p.d, p.e))

pathDirname(p) ==
  IF Len(p.d) <= 1
    THEN (IF IsAbsolute(p) THEN P(<<ROOT>>, "") ELSE P(<<".">>, ""))
    ELSE P(Front(p.d), "")

pathExtname(p) == p.e

\* path.basename(p): the last segment with its extension
pathBasename(p) == P(<<Last(p.d)>>, p.e)

RECURSIVE CommonLen(_, _)
CommonLen(a, b) ==
  IF a = <<>> \/ b = <<>> \/ Head(a) # Head(b) THEN 0
  ELSE 1 + CommonLen(Tail(a), Tail(b))

\* path.relative(from, to) of two directories; "" is the empty sequence
pathRelative(from, to) ==
  LET f == pathResolve(Cwd, from).d
      t == pathResolve(Cwd, to).d
      c == CommonLen(f, t)
  IN  P([i \in 1..(Len(f) - c) |-> ".."] \o SubSeq(t, c + 1, Len(t)), "")

----------------------------------------------------------------------------
(* pathUtils.ts *)

\* A value for "the call threw"
Throw == P(<<"!throw">>, "")

normalizePath(p) == pathNormalize(p)

removeExtension(p) == pathNormalize(P(p.d, ""))

isRelativeImport(lit) == Len(lit.d) >= 2 /\ lit.d[1] \in {".", ".."}

isMonorepoPackageImport(lit) == Len(lit.d) >= 2 /\ lit.d[1] = "@ms"

ModuleRoots == {"packages", "apps"}

\* the leftmost i at which /(?:packages|apps)\/([^/]+)\/src\/(.*)$/ matches
MsMatchAt(d) ==
  {i \in 1..Len(d) : /\ d[i] \in ModuleRoots
                     /\ i + 3 <= Len(d)
                     /\ d[i + 2] = "src"}

Min(S) == CHOOSE x \in S : \A y \in S : x <= y

getMsImportPath(filePath) ==
  LET n == normalizePath(filePath)
  IN  IF MsMatchAt(n.d) = {} THEN Throw
      ELSE LET i == Min(MsMatchAt(n.d))
           IN  P(<<"@ms", n.d[i + 1], "lib">> \o SubSeq(n.d, i + 3, Len(n.d)), "")

resolveImportPath(currentFile, importPath) ==
  IF isRelativeImport(importPath)
    THEN pathResolve(pathDirname(currentFile), importPath)
    ELSE normalizePath(importPath)

NoModule == [moduleType |-> <<"!throw">>, moduleName |-> "!throw"]

ModMatchAt(d) == {i \in 1..Len(d) : d[i] \in ModuleRoots /\ i + 1 <= Len(d)}

getModuleType(importPath) ==
  LET n == normalizePath(importPath)
  IN  IF isMonorepoPackageImport(n)
        THEN [moduleType |-> <<"packages", n.d[2]>>, moduleName |-> n.d[2]]
      ELSE IF ModMatchAt(n.d) = {} THEN NoModule
      ELSE LET i == Min(ModMatchAt(n.d))
           IN  [moduleType |-> <<n.d[i], n.d[i + 1]>>, moduleName |-> n.d[i + 1]]

PackagesAt(d) == {i \in 1..Len(d) : d[i] = "packages"}

handleMonoRepoImportPathToAbsolutePath(directory, importPath) ==
  IF ~isMonorepoPackageImport(importPath) THEN importPath
  ELSE LET currentDir == pathDirname(directory)
           pathParts == SubSeq(importPath.d, 3, Len(importPath.d))
           srcPath == IF pathParts # <<>> /\ Head(pathParts) = "lib"
                        THEN <<"src">> \o Tail(pathParts) ELSE pathParts
       IN  IF PackagesAt(currentDir.d) = {} THEN Throw
           ELSE normalizePath(
                  P(SubSeq(currentDir.d, 1, Min(PackagesAt(currentDir.d)))
                      \o <<importPath.d[2]>> \o srcPath, importPath.e))

IndexNames == {"index"}

isIndexFile(p) == Len(p.d) > 0 /\ Last(p.d) \in IndexNames

----------------------------------------------------------------------------
(* importUtils.ts: addressing *)

\* A value for null / undefined
None == P(<<"!null">>, "")

TsExtensions == {"ts", "tsx"}

getRelativeImportPath(fromFile, toFile) ==
  LET rel == normalizePath(pathRelative(pathDirname(fromFile), pathDirname(toFile)))
      ext == pathExtname(toFile)
      keep == IF ext \in TsExtensions THEN "" ELSE ext
      fileName == Last(toFile.d)
  IN  IF rel.d = <<".">> THEN P(<<".", fileName>>, keep)
      ELSE P(rel.d \o <<fileName>>, keep)

\* A Map as a function; Map.get of an absent key is undefined
MapGet(m, k) == IF k \in DOMAIN m THEN m[k] ELSE None

\* new Map(entries): a later entry of the same key replaces an earlier one
MapKeys(entries) == {entries[i][1] : i \in 1..Len(entries)}

LastIndexOf(entries, k) ==
  CHOOSE i \in 1..Len(entries) :
    entries[i][1] = k /\ \A j \in (i + 1)..Len(entries) : entries[j][1] # k

MapOf(entries) == [k \in MapKeys(entries) |-> entries[LastIndexOf(entries, k)][2]]

checkIfFileIsPartOfMove(fmm, filePath) == filePath \in DOMAIN fmm

addPathVariations(basePath, isIndex) ==
  {normalizePath(basePath), normalizePath(removeExtension(basePath))}
    \cup (IF isIndex
            THEN {normalizePath(pathDirname(basePath)),
                  normalizePath(removeExtension(pathDirname(basePath)))}
            ELSE {})

\* msImportPath.replace(/\/index$/, "")
StripIndex(ms) ==
  IF Len(ms.d) >= 2 /\ Last(ms.d) = "index" /\ ms.e = "" THEN P(Front(ms.d), "") ELSE ms

\* The set of address forms of targetPath, or {Throw} when getMsImportPath throws
generateImportPathVariations(targetPath, cwd) ==
  LET normalized == pathResolve(Cwd, targetPath)
      isIndexFileResult == isIndexFile(normalized)
      msImportPath == getMsImportPath(normalized)
      relativeToCwd == LET r == pathRelative(cwd, normalized) IN P(r.d, normalized.e)
  IN  IF msImportPath = Throw THEN {Throw}
      ELSE addPathVariations(normalized, isIndexFileResult)
             \cup {msImportPath}
             \cup (IF isIndexFileResult THEN {StripIndex(msImportPath)} ELSE {})
             \cup addPathVariations(relativeToCwd, isIndexFileResult)

fileMoveDirection(oldPath, newPath) ==
  LET oldModuleType == getModuleType(oldPath)
      newModuleType == getModuleType(newPath)
  IN  IF oldModuleType = NoModule \/ newModuleType = NoModule THEN "!throw"
      ELSE IF /\ oldModuleType.moduleType = newModuleType.moduleType
              /\ oldModuleType.moduleName = newModuleType.moduleName THEN "self"
      ELSE IF /\ oldModuleType.moduleType = <<"packages">>
              /\ newModuleType.moduleType = <<"apps">> THEN "unknown"
      ELSE "betweenPackages"

\* targetImportPaths: the inverted index; fmm: globalThis.appState.fileMoveMap
matchesTarget(fmm, currentFile, importPath, targetImportPaths) ==
  IF importPath \in DOMAIN targetImportPaths
    THEN MapGet(fmm, targetImportPaths[importPath])
  ELSE LET resolvedPath == normalizePath(resolveImportPath(currentFile, importPath))
       IN  IF resolvedPath \in DOMAIN targetImportPaths
             THEN MapGet(fmm, targetImportPaths[resolvedPath])
             ELSE None

----------------------------------------------------------------------------
(* importUtils.ts: the statement scanner *)

Chunk(node, kw, sp, q, lit, close) ==
  [node |-> node, kw |-> kw, sp |-> sp, q |-> q, lit |-> lit, close |-> close]

\* parse(content) throws on a syntax error
Parses(content) == \A i \in 1..Len(content) : content[i].node # "SyntaxError"

\* a quoted argument is a StringLiteral, a back-quoted one a TemplateLiteral
IsStringLiteral(c) == c.q \in {"single", "double"}

ImportInfo(line, importPath, matched) ==
  [line |-> line, importPath |-> importPath, matchedUpdateToFilePath |-> matched]

\* The references one node yields, in the order the visitors push them.  A
\* Loadable(() => import(x)) call is visited once as Loadable, whose nested
\* traversal finds import(x), and the main traversal then visits import(x) too.
VisitNode(fmm, c, line, currentFile, targetImportPaths) ==
  LET m == matchesTarget(fmm, currentFile, c.lit, targetImportPaths)
      one == IF m # None THEN <<ImportInfo(line, c.lit, m)>> ELSE <<>>
  IN  CASE c.node \in {"ImportDeclaration", "ExportAllDeclaration"} -> one
        [] c.node \in {"require", "Import", "jest.mock"} ->
             IF IsStringLiteral(c) THEN one ELSE <<>>
        [] c.node = "Loadable" ->
             IF IsStringLiteral(c) THEN one \o one ELSE <<>>
        [] OTHER -> <<>>

RECURSIVE Traverse(_, _, _, _, _)
Traverse(fmm, ast, line, currentFile, targetImportPaths) ==
  IF line > Len(ast) THEN <<>>
  ELSE VisitNode(fmm, ast[line], line, currentFile, targetImportPaths)
         \o Traverse(fmm, ast, line + 1, currentFile, targetImportPaths)

\* findDependencyImports without the try around parse: a text that does not
\* parse is traversed like any other
findDependencyImportsLenient(fmm, cachedAst, content, targetImportPaths, currentFile) ==
  [imports |-> Traverse(fmm, content, 1, currentFile, targetImportPaths),
   ast |-> content, unparsed |-> FALSE]

\* cachedAst: astCache.get(currentFile), <<>> when there is no entry.  The
\* result is the list of imports and the tree that astCache holds afterwards.
findDependencyImports(fmm, cachedAst, content, targetImportPaths, currentFile) ==
  IF cachedAst = <<>> /\ ~Parses(content)
    THEN [imports |-> <<>>, ast |-> <<>>, unparsed |-> TRUE]
    ELSE LET ast == IF cachedAst # <<>> THEN cachedAst ELSE content
         IN  [imports |-> Traverse(fmm, ast, 1, currentFile, targetImportPaths),
              ast |-> ast, unparsed |-> FALSE]

----------------------------------------------------------------------------
(* importUtils.ts: the path rewriter *)

\* the quote characters (['"`]) of the patterns
Quotes == {"single", "double", "back"}

\* createImportStatementRegexPatterns: which text each pattern matches
PatternMatches(pattern, c, importPath) ==
  /\ c.lit = importPath
  /\ c.q \in Quotes
  /\ CASE pattern = "staticImportPattern" -> c.kw = "from" /\ c.sp >= 1
       [] pattern = "dynamicImportPattern" -> c.kw = "import(" /\ c.close = ")"
       [] pattern = "requirePattern" -> c.kw = "require(" /\ c.close = ")"
       [] pattern = "jestMockPattern" -> c.kw = "jest.mock(" /\ c.close = ","
       [] pattern = "jestRequireMockPattern" ->
            c.kw = "jest.requireMock(" /\ c.close = ")"

\* the replacement text: "from $1new$1", "import($1new$1)", ...
Replacement(pattern, c, updatedImportPath) ==
  [c EXCEPT !.lit = updatedImportPath,
            !.sp = IF pattern = "staticImportPattern" THEN 1 ELSE 0]

\* null is [matched |-> FALSE]
setFileContentIfRegexMatches(fileContent, pattern, importPath, updatedImportPath) ==
  IF \E i \in 1..Len(fileContent) : PatternMatches(pattern, fileContent[i], importPath)
    THEN [matched |-> TRUE,
          content |-> [i \in 1..Len(fileContent) |->
                         IF PatternMatches(pattern, fileContent[i], importPath)
                           THEN Replacement(pattern, fileContent[i], updatedImportPath)
                           ELSE fileContent[i]]]
    ELSE [matched |-> FALSE, content |-> fileContent]

PatternOrder ==
  <<"staticImportPattern", "dynamicImportPattern", "requirePattern",
    "jestMockPattern", "jestRequireMockPattern">>

RECURSIVE FirstMatching(_, _, _, _)
FirstMatching(fileContent, importPath, updatedImportPath, k) ==
  IF k > Len(PatternOrder) THEN [matched |-> FALSE, content |-> fileContent]
  ELSE LET OrNext(r) ==
             IF r.matched THEN r
             ELSE FirstMatching(fileContent, importPath, updatedImportPath, k + 1)
       IN  OrNext(setFileContentIfRegexMatches(fileContent, PatternOrder[k],
                                               importPath, updatedImportPath))

\* a ?? b ?? c ...: the first pattern that matches anywhere is the one applied
applyImportPathReplacements(fileContent, importPath, updatedImportPath) ==
  FirstMatching(fileContent, importPath, updatedImportPath, 1)

\* "Avoid bare import"
AvoidBare(p) == IF p.d[1] \in {".", ".."} THEN p ELSE P(<<".">> \o p.d, p.e)

UpdateResult(threw, warned, updated, content, updatedImportPath, direction) ==
  [threw |-> threw, warned |-> warned, updated |-> updated,
   updatedFileContent |-> content, updatedImportPath |-> updatedImportPath,
   direction |-> direction]

\* the tail both update handlers share: the direction check, then the replacement
ApplyUpdate(fileDirection, updatedImportPath, importPath, fileContent) ==
  LET Done(r) == UpdateResult(FALSE, FALSE, r.matched, r.content, updatedImportPath,
                              fileDirection)
  IN  IF fileDirection = "!throw"
        THEN UpdateResult(TRUE, FALSE, FALSE, fileContent, None, fileDirection)
      ELSE IF fileDirection \notin {"self", "betweenPackages"}
        THEN UpdateResult(FALSE, TRUE, FALSE, fileContent, None, fileDirection)
      ELSE IF updatedImportPath = Throw
        THEN UpdateResult(TRUE, FALSE, FALSE, fileContent, None, fileDirection)
      ELSE Done(applyImportPathReplacements(fileContent, importPath, updatedImportPath))

\* path.relative through getRelativeImportPath of a resolved alias, or the throw
RelativeOrThrow(fromFile, abs) ==
  IF abs = Throw THEN Throw ELSE getRelativeImportPath(fromFile, abs)

handlePackageImportsUpdate(currentImportPath, currentFilePath, newPath, fileContent) ==
  LET updatedImportPath(fileDirection) ==
        IF fileDirection = "self"
          THEN IF isMonorepoPackageImport(currentImportPath)
                 THEN RelativeOrThrow(currentFilePath,
                        handleMonoRepoImportPathToAbsolutePath(currentFilePath, newPath))
                 ELSE AvoidBare(getRelativeImportPath(currentFilePath, newPath))
          ELSE IF isMonorepoPackageImport(newPath) THEN currentImportPath
          ELSE getMsImportPath(newPath)
      Update(fileDirection) ==
        ApplyUpdate(fileDirection, updatedImportPath(fileDirection), currentImportPath,
                    fileContent)
  IN  Update(fileMoveDirection(currentFilePath, newPath))

handleMovingFileImportsUpdate(fmm, importPath, originalMovedFilePath, newMovedFilePath, fileContent) ==
  LET importFilePath(targetImportFileAbsPath) ==
        IF checkIfFileIsPartOfMove(fmm, targetImportFileAbsPath)
          THEN fmm[targetImportFileAbsPath]
        ELSE IF isRelativeImport(importPath) THEN targetImportFileAbsPath
        ELSE importPath
      updatedImportPath(fileDirection, target) ==
        IF fileDirection = "self"
          THEN IF isMonorepoPackageImport(importPath)
                 THEN RelativeOrThrow(newMovedFilePath,
                        handleMonoRepoImportPathToAbsolutePath(newMovedFilePath, target))
                 ELSE AvoidBare(getRelativeImportPath(newMovedFilePath, target))
          ELSE IF isMonorepoPackageImport(importPath) THEN importPath
          ELSE getMsImportPath(importPath)
      Update(fileDirection, target) ==
        ApplyUpdate(fileDirection, updatedImportPath(fileDirection, target), importPath,
                    fileContent)
      Towards(target) == Update(fileMoveDirection(newMovedFilePath, target), target)
  IN  Towards(importFilePath(pathResolve(pathDirname(originalMovedFilePath), importPath)))

----------------------------------------------------------------------------
(* The file system and fileOps.ts *)

\* A disk is a function from the absolute paths of its files to their text
FsPut(f, p, c) == [x \in DOMAIN f \cup {p} |-> IF x = p THEN c ELSE f[x]]

FsDel(f, p) == [x \in DOMAIN f \ {p} |-> f[x]]

IsPrefix(a, b) == Len(a) <= Len(b) /\ SubSeq(b, 1, Len(a)) = a

\* the files below directory dir
Under(f, dir) == {x \in DOMAIN f : Len(x.d) > Len(dir.d) /\ IsPrefix(dir.d, x.d)}

IsFile(f, p) == p \in DOMAIN f

IsDirectory(f, ds, p) == p \notin DOMAIN f /\ (p \in ds \/ Under(f, p) # {})

Exists(f, ds, p) == IsFile(f, p) \/ IsDirectory(f, ds, p)

Ancestors(p) == {P(SubSeq(p.d, 1, n), "") : n \in 1..Len(p.d)}

Rebase(x, from, to) == P(to.d \o SubSeq(x.d, Len(from.d) + 1, Len(x.d)), x.e)

\* fs.rename(oldPath, newPath): [ok, fs, dirs]
fsRename(f, ds, oldPath, newPath) ==
  IF IsFile(f, oldPath)
    THEN IF oldPath = newPath THEN [ok |-> TRUE, fs |-> f, dirs |-> ds]
         ELSE IF IsDirectory(f, ds, newPath) \/ ~IsDirectory(f, ds, pathDirname(newPath))
           THEN [ok |-> FALSE, fs |-> f, dirs |-> ds]
         ELSE [ok |-> TRUE, fs |-> FsPut(FsDel(f, oldPath), newPath, f[oldPath]),
               dirs |-> ds \cup Ancestors(pathDirname(oldPath))]
  ELSE IF IsDirectory(f, ds, oldPath)
    THEN IF oldPath = newPath THEN [ok |-> TRUE, fs |-> f, dirs |-> ds]
         ELSE IF \/ IsFile(f, newPath)
                 \/ Under(f, newPath) # {}
                 \/ IsPrefix(oldPath.d, newPath.d)
                 \/ ~IsDirectory(f, ds, pathDirname(newPath))
           THEN [ok |-> FALSE, fs |-> f, dirs |-> ds]
         ELSE LET moved == Under(f, oldPath)
                  kept == DOMAIN f \ moved
                  new == {Rebase(x, oldPath, newPath) : x \in moved}
              IN  [ok |-> TRUE,
                   fs |-> [x \in kept \cup new |->
                             IF x \in kept THEN f[x]
                             ELSE f[CHOOSE y \in moved : Rebase(y, oldPath, newPath) = x]],
                   dirs |-> (ds \ {oldPath}) \cup {newPath}
                              \cup Ancestors(pathDirname(oldPath))]
  ELSE [ok |-> FALSE, fs |-> f, dirs |-> ds]

\* the disk refuses operation op on path p
Fails(flt, op, p) == <<op, p>> \in flt

\* movePhysicalFile: the rename, then the content cache entry follows the file
\* when the cached text is truthy (not the empty string)
movePhysicalFile(f, flt, ds, cache, oldPath, newPath) ==
  LET Moved(r) ==
        IF ~r.ok THEN [ok |-> FALSE, fs |-> f, dirs |-> ds, cache |-> cache]
        ELSE [ok |-> TRUE, fs |-> r.fs, dirs |-> r.dirs,
              cache |-> IF oldPath \in DOMAIN cache /\ cache[oldPath] # <<>>
                          THEN FsDel(FsPut(cache, newPath, cache[oldPath]), oldPath)
                          ELSE cache]
  IN  IF Fails(flt, "rename", oldPath) THEN Moved([ok |-> FALSE])
      ELSE Moved(fsRename(f, ds, oldPath, newPath))

\* readFileWithValidation: [ok, content, cache].  fs.access fails for a path
\* that is not there; fs.readFile is called only when the cache has no text.
readFileWithValidation(f, flt, cache, fmm, filePath) ==
  LET latestPath == MapGet(fmm, filePath)
      currentFilePath == IF checkIfFileIsPartOfMove(fmm, filePath) /\ latestPath # None
                           THEN latestPath ELSE filePath
  IN  IF ~IsFile(f, currentFilePath)
        THEN [ok |-> FALSE, content |-> <<>>, cache |-> cache]
      ELSE IF currentFilePath \in DOMAIN cache /\ cache[currentFilePath] # <<>>
        THEN [ok |-> TRUE, content |-> cache[currentFilePath], cache |-> cache]
      ELSE IF Fails(flt, "read", currentFilePath)
        THEN [ok |-> FALSE, content |-> <<>>, cache |-> cache]
      ELSE [ok |-> TRUE, content |-> f[currentFilePath],
            cache |-> FsPut(cache, currentFilePath, f[currentFilePath])]

Decision(file, importPath, newPath, r) ==
  [file |-> file, importPath |-> importPath, newPath |-> newPath,
   direction |-> r.direction, updatedImportPath |-> r.updatedImportPath,
   updated |-> r.updated, threw |-> r.threw, warned |-> r.warned]

\* the for loop of updateImportsInFile, from the k-th import on
RECURSIVE UpdateLoop(_, _, _, _, _, _)
UpdateLoop(imports, k, currentFilePath, fileContent, hasChanges, log) ==
  IF k > Len(imports)
    THEN [threw |-> FALSE, content |-> fileContent, hasChanges |-> hasChanges, log |-> log]
    ELSE LET Step(r, log2) ==
               IF r.threw
                 THEN [threw |-> TRUE, content |-> fileContent, hasChanges |-> hasChanges,
                       log |-> log2]
                 ELSE UpdateLoop(imports, k + 1, currentFilePath,
                                 IF r.updated THEN r.updatedFileContent ELSE fileContent,
                                 hasChanges \/ r.updated, log2)
             Log(r) == Step(r, log \cup {Decision(currentFilePath, imports[k].importPath,
                                                  imports[k].matchedUpdateToFilePath, r)})
         IN  Log(handlePackageImportsUpdate(imports[k].importPath, currentFilePath,
                                            imports[k].matchedUpdateToFilePath, fileContent))

\* updateImportsInFile: [result, fs, cache, wrote, error, log].  Whatever is
\* thrown inside is caught, printed with console.error, and false is returned.
updateImportsInFile(f, flt, cache, fmm, currentFilePath, imports) ==
  LET Write(rd, lp) ==
        IF lp.threw \/ (lp.hasChanges /\ Fails(flt, "write", currentFilePath))
          THEN [result |-> FALSE, fs |-> f, cache |-> rd.cache, wrote |-> FALSE,
                error |-> TRUE, log |-> lp.log]
        ELSE IF ~lp.hasChanges
          THEN [result |-> FALSE, fs |-> f, cache |-> rd.cache, wrote |-> FALSE,
                error |-> FALSE, log |-> lp.log]
          ELSE [result |-> TRUE, fs |-> FsPut(f, currentFilePath, lp.content),
                cache |-> FsPut(rd.cache, currentFilePath, lp.content), wrote |-> TRUE,
                error |-> FALSE, log |-> lp.log]
      Read(rd) ==
        IF ~rd.ok
          THEN [result |-> FALSE, fs |-> f, cache |-> cache, wrote |-> FALSE,
                error |-> TRUE, log |-> {}]
          ELSE Write(rd, UpdateLoop(imports, 1, currentFilePath, rd.content, FALSE, {}))
  IN  Read(readFileWithValidation(f, flt, cache, fmm, currentFilePath))

\* the imports updateImportsInMovedFile collects from the moved file's tree
MovedFileImport(c) ==
  \/ /\ c.node = "ImportDeclaration"
     /\ isRelativeImport(c.lit) \/ isMonorepoPackageImport(c.lit)
  \/ /\ c.node \in {"require", "Import", "Loadable"}
     /\ IsStringLiteral(c)
     /\ isRelativeImport(c.lit)

RECURSIVE MovedLoop(_, _, _, _, _, _, _, _)
MovedLoop(fmm, ast, k, oldPath, newPath, updatedContent, hasChanges, log) ==
  IF k > Len(ast)
    THEN [threw |-> FALSE, content |-> updatedContent, hasChanges |-> hasChanges,
          log |-> log]
  ELSE IF ~MovedFileImport(ast[k])
    THEN MovedLoop(fmm, ast, k + 1, oldPath, newPath, updatedContent, hasChanges, log)
  ELSE LET Step(r, log2) ==
             IF r.threw
               THEN [threw |-> TRUE, content |-> updatedContent, hasChanges |-> hasChanges,
                     log |-> log2]
               ELSE MovedLoop(fmm, ast, k + 1, oldPath, newPath,
                              IF r.updated THEN r.updatedFileContent ELSE updatedContent,
                              hasChanges \/ r.updated, log2)
           Log(r) == Step(r, log \cup {Decision(newPath, ast[k].lit, None, r)})
       IN  Log(handleMovingFileImportsUpdate(fmm, ast[k].lit, oldPath, newPath,
                                             updatedContent))

\* updateImportsInMovedFile: [fs, wrote, error, unparsed, log].  A tree that
\* cannot be parsed ends the function; whatever else is thrown is caught and
\* printed with console.error.
updateImportsInMovedFile(f, flt, fmm, oldPath, newPath) ==
  LET Write(lp) ==
        IF lp.threw \/ (lp.hasChanges /\ Fails(flt, "write", newPath))
          THEN [fs |-> f, wrote |-> FALSE, error |-> TRUE, unparsed |-> FALSE,
                log |-> lp.log]
        ELSE IF ~lp.hasChanges
          THEN [fs |-> f, wrote |-> FALSE, error |-> FALSE, unparsed |-> FALSE,
                log |-> lp.log]
          ELSE [fs |-> FsPut(f, newPath, lp.content), wrote |-> TRUE, error |-> FALSE,
                unparsed |-> FALSE, log |-> lp.log]
  IN  IF ~IsFile(f, newPath) \/ Fails(flt, "read", newPath)
        THEN [fs |-> f, wrote |-> FALSE, error |-> TRUE, unparsed |-> FALSE, log |-> {}]
      ELSE IF ~Parses(f[newPath])
        THEN [fs |-> f, wrote |-> FALSE, error |-> FALSE, unparsed |-> TRUE, log |-> {}]
        ELSE Write(MovedLoop(fmm, f[newPath], 1, oldPath, newPath, f[newPath], FALSE, {}))

addIndexFileMoves(fromPath, toPath) ==
  IF isIndexFile(fromPath) THEN << <<pathDirname(fromPath), pathDirname(toPath)>> >>
  ELSE <<>>

RECURSIVE Flatten(_)
Flatten(ss) == IF ss = <<>> THEN <<>> ELSE Head(ss) \o Flatten(Tail(ss))

\* the entries fs.readdir lists, in some order
RECURSIVE SetToSeq(_)
SetToSeq(S) ==
  IF S = {} THEN <<>>
  ELSE LET x == CHOOSE y \in S : TRUE IN <<x>> \o SetToSeq(S \ {x})

\* path.join(dir, name, ...): the path of file, found below absDir, below dir
JoinBelow(dir, absDir, file) ==
  pathNormalize(P(dir.d \o SubSeq(file.d, Len(absDir.d) + 1, Len(file.d)), file.e))

\* getDirectoryMoves: one move for each file below sourceDir, at any depth
getDirectoryMoves(f, sourceDir, targetDir) ==
  LET absDir == pathResolve(Cwd, sourceDir)
      files == SetToSeq(Under(f, absDir))
  IN  Flatten([k \in 1..Len(files) |->
                 << <<JoinBelow(sourceDir, absDir, files[k]),
                      JoinBelow(targetDir, absDir, files[k])>> >>
                   \o addIndexFileMoves(JoinBelow(sourceDir, absDir, files[k]),
                                        JoinBelow(targetDir, absDir, files[k]))])

----------------------------------------------------------------------------
(* The code base the batches run on *)

INCLUDED_PACKAGE_FOLDERS == {"powerva-main", "powerva-embedded-experiences", "powerva-core"}

INCLUDED_APPS_FOLDERS == {"powerva-microsoft-com"}

ExcludedExtensions == {"json", "md", "svg", "png", "txt", "jpg", "log", "html", "gif"}

ExcludedFolders == {"node_modules", "dist", "build", "lib", ".git"}

\* findSourceFiles: the include and exclude patterns of CONFIG
IsSourceFile(p) ==
  /\ Len(p.d) >= 5
  /\ IsPrefix(Cwd.d, p.d)
  /\ \/ p.d[3] = "packages" /\ p.d[4] \in INCLUDED_PACKAGE_FOLDERS
     \/ p.d[3] = "apps" /\ p.d[4] \in INCLUDED_APPS_FOLDERS
  /\ p.e \notin ExcludedExtensions
  /\ \A k \in 1..(Len(p.d) - 1) : p.d[k] \notin ExcludedFolders

Main(segs, e) == P(Cwd.d \o <<"packages", "powerva-main", "src">> \o segs, e)

Core(segs, e) == P(Cwd.d \o <<"packages", "powerva-core", "src">> \o segs, e)

App(segs, e) == P(Cwd.d \o <<"apps", "powerva-microsoft-com", "src">> \o segs, e)

\* a path as the user writes it, relative to the working directory
RelativeToCwd(p) == P(SubSeq(p.d, Len(Cwd.d) + 1, Len(p.d)), p.e)

Helper == Main(<<"utils", "helper">>, "ts")

Button == Main(<<"components", "Button">>, "ts")

Card == Core(<<"components", "Card">>, "ts")

AppFile == App(<<"App">>, "ts")

FooIndex == Main(<<"foo", "index">>, "ts")

Legacy == Main(<<"legacy", "helper">>, "ts")

\* a file outside every module root
Script == P(Cwd.d \o <<"tools", "script">>, "ts")

React == P(<<"react">>, "")

HelperAlias == P(<<"@ms", "powerva-main", "lib", "utils", "helper">>, "")

\* Statement shapes: node, keyword text, white space, quote, closing text
Shape(node, kw, sp, q, close) ==
  [node |-> node, kw |-> kw, sp |-> sp, q |-> q, close |-> close]

Static == Shape("ImportDeclaration", "from", 1, "single", ";")

ExportAll == Shape("ExportAllDeclaration", "from", 1, "single", ";")

ExportNamed == Shape("ExportNamedDeclaration", "from", 1, "single", ";")

SideEffect == Shape("ImportDeclaration", "import", 1, "single", ";")

Require == Shape("require", "require(", 0, "single", ")")

Dynamic == Shape("Import", "import(", 0, "single", ")")

JestMock == Shape("jest.mock", "jest.mock(", 0, "single", ",")

JestMockBare == Shape("jest.mock", "jest.mock(", 0, "single", ")")

LoadableImport == Shape("Loadable", "import(", 0, "single", ")")

Comment == Shape("Comment", "from", 1, "single", ";")

StaticWide == Shape("ImportDeclaration", "from", 2, "double", ";")

RequireTemplate == Shape("require", "require(", 0, "back", ")")

Stmt(shape, lit) == Chunk(shape.node, shape.kw, shape.sp, shape.q, lit, shape.close)

ImportLikeNodes ==
  {"ImportDeclaration", "ExportAllDeclaration", "ExportNamedDeclaration", "require",
   "Import", "jest.mock", "Loadable"}

\* The shapes the batches draw their statements from
BatchShapes == {Static, ExportAll, SideEffect, Require, JestMockBare, Comment, StaticWide}

MaxStmts == 2

\* the texts of a file that refers to a moved file by rel or by alias
Chunks(rel, alias) ==
  {Stmt(sh, rel) : sh \in BatchShapes} \cup {Stmt(Static, alias), Stmt(Static, React)}

RECURSIVE SeqsUpTo(_, _)
SeqsUpTo(S, n) ==
  IF n = 0 THEN {<<>>}
  ELSE LET shorter == SeqsUpTo(S, n - 1)
       IN  shorter \cup {Append(t, x) : t \in shorter, x \in S}

Contents(rel, alias) == SeqsUpTo(Chunks(rel, alias), MaxStmts) \ {<<>>}

Ref(file, rel, alias) == [file |-> file, rel |-> rel, alias |-> alias]

Lit(segs) == P(segs, "")

\* Each scenario: the batch, the files whose text refers to a moved file (one of
\* them, the subject, has its text drawn from Contents), and the other files.
Scenarios ==
  { [name |-> "self",
     moves |-> << <<Helper, Main(<<"shared", "helper">>, "ts")>> >>,
     refs |-> {Ref(Button, Lit(<<"..", "utils", "helper">>), HelperAlias),
               Ref(Card, Lit(<<"..", "..", "..", "powerva-main", "src", "utils", "helper">>),
                   HelperAlias)},
     others |-> {Helper}],
    [name |-> "subdir",
     moves |-> << <<Helper, Main(<<"components", "ui", "helper">>, "ts")>> >>,
     refs |-> {Ref(Button, Lit(<<"..", "utils", "helper">>), HelperAlias)},
     others |-> {Helper, Card}],
    [name |-> "toPackage",
     moves |-> << <<Helper, Core(<<"utils", "helper">>, "ts")>> >>,
     refs |-> {Ref(Button, Lit(<<"..", "utils", "helper">>), HelperAlias),
               Ref(Card, Lit(<<"..", "..", "..", "powerva-main", "src", "utils", "helper">>),
                   HelperAlias)},
     others |-> {Helper}],
    [name |-> "toApp",
     moves |-> << <<Helper, App(<<"utils", "helper">>, "ts")>> >>,
     refs |-> {Ref(Button, Lit(<<"..", "utils", "helper">>), HelperAlias),
               Ref(AppFile, Lit(<<"..", "..", "..", "packages", "powerva-main", "src",
                                  "utils", "helper">>), HelperAlias)},
     others |-> {Helper}],
    [name |-> "index",
     moves |-> << <<FooIndex, Main(<<"bar", "index">>, "ts")>> >>,
     refs |-> {Ref(Button, Lit(<<"..", "foo">>),
                   Lit(<<"@ms", "powerva-main", "lib", "foo">>)),
               Ref(Card, Lit(<<"..", "..", "..", "powerva-main", "src", "foo">>),
                   Lit(<<"@ms", "powerva-main", "lib", "foo">>))},
     others |-> {FooIndex}],
    [name |-> "movedTogether",
     moves |-> << <<Button, Main(<<"components", "forms", "Button">>, "ts")>>,
                  <<Helper, Main(<<"shared", "helper">>, "ts")>> >>,
     refs |-> {Ref(Button, Lit(<<"..", "utils", "helper">>), HelperAlias),
               Ref(Card, Lit(<<"..", "..", "..", "powerva-main", "src", "components",
                               "Button">>),
                   Lit(<<"@ms", "powerva-main", "lib", "components", "Button">>))},
     others |-> {Helper}],
    [name |-> "movedAcross",
     moves |-> << <<Button, Core(<<"components", "Button">>, "ts")>> >>,
     refs |-> {Ref(Button, Lit(<<"..", "utils", "helper">>), HelperAlias)},
     others |-> {Helper, Card}],
    [name |-> "chain",
     moves |-> << <<Legacy, Helper>>, <<Helper, Main(<<"shared", "helper">>, "ts")>> >>,
     refs |-> {Ref(Button, Lit(<<"..", "legacy", "helper">>),
                   Lit(<<"@ms", "powerva-main", "lib", "legacy", "helper">>))},
     others |-> {Legacy, Helper, Card}],
    [name |-> "chainFresh",
     moves |-> << <<Legacy, Main(<<"staging", "helper">>, "ts")>>,
                  <<Main(<<"staging", "helper">>, "ts"), Main(<<"shared", "helper">>, "ts")>> >>,
     refs |-> {Ref(Button, Lit(<<"..", "legacy", "helper">>),
                   Lit(<<"@ms", "powerva-main", "lib", "legacy", "helper">>))},
     others |-> {Legacy, Card}],
    [name |-> "directory",
     moves |-> << <<Main(<<"utils">>, ""), Main(<<"shared">>, "")>> >>,
     refs |-> {Ref(Button, Lit(<<"..", "utils", "helper">>), HelperAlias)},
     others |-> {Helper, Card}],
    [name |-> "twoMoves",
     moves |-> << <<Legacy, Main(<<"shared", "legacy">>, "ts")>>,
                  <<Helper, Main(<<"shared", "helper">>, "ts")>> >>,
     refs |-> {Ref(Button, Lit(<<"..", "utils", "helper">>), HelperAlias)},
     others |-> {Legacy, Helper, Card}],
    [name |-> "outside",
     moves |-> << <<Script, P(Cwd.d \o <<"tools", "moved">>, "ts")>> >>,
     refs |-> {Ref(Button, Lit(<<"..", "..", "..", "..", "tools", "script">>), HelperAlias)},
     others |-> {Script, Card}],
    [name |-> "handOver",
     moves |-> << <<Helper, Main(<<"shared", "helper">>, "ts")>>, <<Legacy, Helper>> >>,
     refs |-> {Ref(Button, Lit(<<"..", "legacy", "helper">>), Lit(<<"..", "utils", "helper">>))},
     others |-> {Legacy, Helper, Card}],
    [name |-> "cycle",
     moves |-> << <<Legacy, Helper>>, <<Helper, Legacy>> >>,
     refs |-> {Ref(Button, Lit(<<"..", "utils", "helper">>), HelperAlias)},
     others |-> {Legacy, Helper, Card}] }

\* the text of a file that no scenario varies
DefaultText == <<Stmt(Static, React)>>

----------------------------------------------------------------------------
(* The batch: moveFileAndUpdateImports *)

VARIABLES
  history,           \* the disks before the batches run earlier, oldest first
  moves,             \* the batch as given: a sequence of <<fromPath, toPath>>
  dryRun,            \* globalThis.appState.dryRun
  verbose,           \* globalThis.appState.verbose
  faults,            \* the operations the disk refuses: <<operation, path>>
  reported,          \* what console.error and console.warn have printed
  fs,                \* the disk: path -> text
  dirs,              \* the directories made by mkdir or left empty
  fs0,               \* the disk before the batch
  fileMoves,         \* globalThis.appState.fileMoves
  fileMoveMap,       \* globalThis.appState.fileMoveMap
  normalizedMoves,   \* the moves resolved against CONFIG.cwd
  sourceFiles,       \* the files to scan
  inverted,          \* invertedImportPathCache: address form -> fromPath
  scanned,           \* the files whose scan task has finished
  importAnalysis,    \* file -> its matched imports, for files that have some
  updated,           \* the files whose update task has finished
  tasks,             \* the tasks waiting for the disk: file -> what they wait for
  updatedFiles,      \* the number batchUpdateImports returns
  i,                 \* the index of the move being processed
  deadFiles,         \* the moved files reported as unused
  fileContentCache,  \* path -> text
  astCache,          \* path -> parsed tree
  writes,            \* the paths fs.writeFile was called on
  renames,           \* the moves whose rename succeeded
  decisions,         \* what the rewriter decided for each reference
  pc,                \* where the run is
  fnArg,             \* the arguments of a function applied on its own
  fnRes              \* and its result

vars ==
  <<history, tasks, moves, dryRun, verbose, faults, reported, fs, dirs, fs0, fileMoves, fileMoveMap,
    normalizedMoves, sourceFiles, inverted, scanned, importAnalysis, updated, updatedFiles, i, deadFiles,
    fileContentCache, astCache, writes, renames, decisions, pc, fnArg, fnRes>>

EmptyMap == [x \in {} |-> None]

NoFn == [op |-> "none"]

\* a line that the parser rejects
Broken == Shape("SyntaxError", "from", 1, "single", ";")

\* the texts of the runs in which the disk refuses an operation or a file does
\* not parse
HardTexts(rel) ==
  {<<Stmt(Static, rel)>>, <<Stmt(Static, rel), Stmt(Require, rel)>>,
   <<Stmt(Broken, rel), Stmt(Static, rel)>>}

\* the paths file has in the course of the batch sc
PathsOf(sc, file) ==
  {file} \cup {sc.moves[k][2] : k \in {m \in 1..Len(sc.moves) : sc.moves[m][1] = file}}

\* no fault, or one operation refused on one path of file
FaultSets(sc, file) ==
  {{}} \cup {{<<op, p>>} : op \in {"read", "write"}, p \in PathsOf(sc, file)}
       \cup {{<<"rename", file>>}}

\* one line of console.error or console.warn
Rep(level, at, path) == [level |-> level, at |-> at, path |-> path]

\* The disk of a scenario, with the subject's text drawn from its Contents
Disk(sc, subject, text) ==
  [f \in {r.file : r \in sc.refs} \cup sc.others |->
     IF f = subject.file THEN text
     ELSE IF \E r \in sc.refs : r.file = f
       THEN <<Stmt(Static, (CHOOSE r \in sc.refs : r.file = f).rel)>>
     ELSE DefaultText]

\* A process that has just started: nothing cached, nothing done
Fresh ==
  /\ reported = {}
  /\ tasks = EmptyMap
  /\ history = <<>>
  /\ dirs = {}
  /\ fs0 = fs
  /\ fileMoves = <<>>
  /\ fileMoveMap = EmptyMap
  /\ normalizedMoves = <<>>
  /\ sourceFiles = {}
  /\ inverted = EmptyMap
  /\ scanned = {}
  /\ importAnalysis = EmptyMap
  /\ updated = {}
  /\ updatedFiles = 0
  /\ i = 1
  /\ deadFiles = <<>>
  /\ fileContentCache = EmptyMap
  /\ astCache = EmptyMap
  /\ writes = {}
  /\ renames = {}
  /\ decisions = {}
  /\ fnRes = NoFn

Init ==
  /\ \E sc \in Scenarios :
     \E absolute \in [1..Len(sc.moves) -> BOOLEAN] :
       /\ moves = [k \in 1..Len(sc.moves) |->
                     IF absolute[k] THEN sc.moves[k]
                     ELSE <<RelativeToCwd(sc.moves[k][1]), RelativeToCwd(sc.moves[k][2])>>]
       /\ \E subject \in sc.refs :
            \/ /\ \E text \in Contents(subject.rel, subject.alias) :
                    fs = Disk(sc, subject, text)
               /\ verbose = FALSE
               /\ faults = {}
            \/ /\ \E text \in HardTexts(subject.rel) : fs = Disk(sc, subject, text)
               /\ verbose \in BOOLEAN
               /\ faults \in FaultSets(sc, subject.file)
  /\ dryRun \in BOOLEAN
  /\ Fresh
  /\ pc = "expand"
  /\ fnArg = NoFn

\* Lines 88-130: expand the moves, then set fileMoves, fileMoveMap, normalizedMoves.
\* A fromPath that fs.stat cannot find ends the process.
Expand ==
  /\ pc = "expand"
  /\ LET missing == \E k \in 1..Len(moves) : ~Exists(fs, dirs, pathResolve(Cwd, moves[k][1]))
         expandedMoves ==
           Flatten([k \in 1..Len(moves) |->
                      IF IsDirectory(fs, dirs, pathResolve(Cwd, moves[k][1]))
                        THEN getDirectoryMoves(fs, moves[k][1], moves[k][2])
                        ELSE <<moves[k]>> \o addIndexFileMoves(moves[k][1], moves[k][2])])
         fm == [k \in 1..Len(expandedMoves) |->
                  <<pathNormalize(expandedMoves[k][1]), pathNormalize(expandedMoves[k][2])>>]
         stripped == [k \in 1..Len(fm) |->
                        <<removeExtension(fm[k][1]), removeExtension(fm[k][2])>>]
     IN  IF missing
           THEN /\ pc' = "exit"
                /\ reported' = reported \cup
                     {Rep("error", "expand",
                          moves[Min({k \in 1..Len(moves) :
                                      ~Exists(fs, dirs, pathResolve(Cwd, moves[k][1]))})][1])}
                /\ UNCHANGED <<fileMoves, fileMoveMap, normalizedMoves>>
           ELSE /\ reported' = reported
                /\ fileMoves' = fm
                /\ fileMoveMap' = MapOf(fm \o stripped)
                /\ normalizedMoves' =
                     [k \in 1..Len(expandedMoves) |->
                        <<pathResolve(Cwd, expandedMoves[k][1]),
                          pathResolve(Cwd, expandedMoves[k][2])>>]
                /\ pc' = "validate"
  /\ UNCHANGED <<history, tasks, moves, dryRun, verbose, faults, fs, dirs, fs0, sourceFiles, inverted, scanned,
                 importAnalysis, updated, updatedFiles, i, deadFiles, fileContentCache,
                 astCache, writes, renames, decisions, fnArg, fnRes>>

\* validateInputs(oldPath, newPath) on disk (f, ds): [ok, dirs].  The error
\* thrown for a destination that is a file has no code and is swallowed.
validateInputs(f, ds, oldPath, newPath) ==
  IF ~Exists(f, ds, oldPath) THEN [ok |-> FALSE, dirs |-> ds]
  ELSE IF \E a \in Ancestors(pathDirname(newPath)) : IsFile(f, a)
    THEN [ok |-> FALSE, dirs |-> ds]
  ELSE [ok |-> TRUE, dirs |-> ds \cup Ancestors(pathDirname(newPath))]

\* the validation loop from the k-th move on: [ok, dirs, at], at the move that failed
RECURSIVE ValidateAll(_, _, _, _)
ValidateAll(f, ds, ms, k) ==
  IF k > Len(ms) THEN [ok |-> TRUE, dirs |-> ds, at |-> 0]
  ELSE LET Go(r) == IF r.ok THEN ValidateAll(f, r.dirs, ms, k + 1)
                    ELSE [ok |-> FALSE, dirs |-> r.dirs, at |-> k]
       IN  Go(validateInputs(f, ds, ms[k][1], ms[k][2]))

\* Lines 137-145: a move that fails validation ends the process
Validate ==
  /\ pc = "validate"
  /\ \E r \in {ValidateAll(fs, dirs, normalizedMoves, 1)} :
         /\ dirs' = r.dirs
         /\ pc' = IF r.ok THEN "discover" ELSE "exit"
         /\ reported' = IF r.ok THEN reported
                         ELSE reported \cup {Rep("error", "validate", normalizedMoves[r.at][1])}
  /\ UNCHANGED <<history, tasks, moves, dryRun, verbose, faults, fs, fs0, fileMoves, fileMoveMap, normalizedMoves,
                 sourceFiles, inverted, scanned, importAnalysis, updated, updatedFiles, i,
                 deadFiles, fileContentCache, astCache, writes, renames, decisions,
                 fnArg, fnRes>>

\* invertedImportPathCache.set(v, key) for every variation of every move, in order
RECURSIVE Invert(_, _, _)
Invert(ms, k, acc) ==
  IF k > Len(ms) THEN acc
  ELSE LET from == ms[k][1]
           variations == generateImportPathVariations(from, Cwd)
       IN  Invert(ms, k + 1,
                  [v \in DOMAIN acc \cup variations |->
                     IF v \in variations THEN from ELSE acc[v]])

PrecomputeThrows(ms) ==
  \E k \in 1..Len(ms) : Throw \in generateImportPathVariations(ms[k][1], Cwd)

\* Lines 152-181: find the source files, drop the moved ones, precompute the
\* address forms and invert them.  getMsImportPath throwing is caught by no one
\* here: the exception ends the run.
Discover ==
  /\ pc = "discover"
  /\ sourceFiles' = {f \in DOMAIN fs : IsSourceFile(f) /\ f \notin DOMAIN fileMoveMap}
  /\ IF PrecomputeThrows(normalizedMoves)
       THEN /\ pc' = "exit"
            /\ reported' = reported \cup {Rep("error", "top", None)}
            /\ UNCHANGED inverted
       ELSE /\ inverted' = Invert(normalizedMoves, 1, EmptyMap)
            /\ reported' = reported
            /\ pc' = IF sourceFiles' = {} THEN "loop" ELSE "scan"
  /\ UNCHANGED <<history, tasks, moves, dryRun, verbose, faults, fs, dirs, fs0, fileMoves, fileMoveMap, normalizedMoves,
                 scanned, importAnalysis, updated, updatedFiles, i, deadFiles,
                 fileContentCache, astCache, writes, renames, decisions, fnArg, fnRes>>

\* One task of analyzeImportsWithTracking: read the file and find its imports.
\* A read that fails is caught: the file yields nothing, with a warning unless
\* it is a source of the batch.  A parse that fails warns in verbose mode only.
ScanFile(f) ==
  /\ pc = "scan"
  /\ f \in sourceFiles \ scanned
  /\ IF Fails(faults, "read", f)
       THEN /\ reported' = IF \E m \in 1..Len(fileMoves) : fileMoves[m][1] = pathNormalize(f)
                              THEN reported
                              ELSE reported \cup {Rep("warn", "read", f)}
            /\ UNCHANGED <<astCache, importAnalysis>>
       ELSE \E r \in {findDependencyImports(fileMoveMap,
                                            IF f \in DOMAIN astCache THEN astCache[f]
                                            ELSE <<>>, fs[f], inverted, f)} :
              /\ astCache' = IF r.ast # <<>> THEN FsPut(astCache, f, r.ast) ELSE astCache
              /\ importAnalysis' = IF r.imports # <<>>
                                     THEN FsPut(importAnalysis, f, r.imports)
                                     ELSE importAnalysis
              /\ reported' = IF r.unparsed /\ verbose
                                THEN reported \cup {Rep("warn", "parse", f)}
                                ELSE reported
  /\ scanned' = scanned \cup {f}
         /\ pc' = IF scanned' # sourceFiles THEN "scan"
                  ELSE IF DOMAIN importAnalysis' = {} THEN "loop" ELSE "update"
  /\ UNCHANGED <<history, tasks, moves, dryRun, verbose, faults, fs, dirs, fs0, fileMoves, fileMoveMap, normalizedMoves,
                 sourceFiles, inverted, updated, updatedFiles, i, deadFiles,
                 fileContentCache, writes, renames, decisions, fnArg, fnRes>>

\* One task of batchUpdateImports: updateImportsInFile on one analysed file
UpdateFile(f) ==
  /\ pc = "update"
  /\ f \in DOMAIN importAnalysis \ updated
  /\ \E r \in {updateImportsInFile(fs, faults, fileContentCache, fileMoveMap, f,
                                   importAnalysis[f])} :
         /\ reported' = IF r.error THEN reported \cup {Rep("error", "update", f)}
                         ELSE reported
         /\ fs' = r.fs
         /\ fileContentCache' = r.cache
         /\ writes' = IF r.wrote THEN writes \cup {f} ELSE writes
         /\ updatedFiles' = updatedFiles + (IF r.result THEN 1 ELSE 0)
         /\ decisions' = decisions \cup r.log
  /\ updated' = updated \cup {f}
  /\ pc' = IF updated' = DOMAIN importAnalysis THEN "loop" ELSE "update"
  /\ UNCHANGED <<history, tasks, moves, dryRun, verbose, faults, dirs, fs0, fileMoves, fileMoveMap, normalizedMoves,
                 sourceFiles, inverted, scanned, importAnalysis, i, deadFiles, astCache,
                 renames, fnArg, fnRes>>

\* Lines 252-267: in dry-run mode the loop reports and continues
DryRunMove ==
  /\ pc = "loop"
  /\ i <= Len(normalizedMoves)
  /\ dryRun
  /\ i' = i + 1
  /\ UNCHANGED <<history, tasks, moves, dryRun, verbose, faults, reported, fs, dirs, fs0, fileMoves, fileMoveMap, normalizedMoves,
                 sourceFiles, inverted, scanned, importAnalysis, updated, updatedFiles,
                 deadFiles, fileContentCache, astCache, writes, renames, decisions, pc,
                 fnArg, fnRes>>

\* MoveFile with the await on batchUpdateImports left out: the loop may start
\* while update tasks are still pending
MoveFileNotAwaited ==
  /\ pc \in {"update", "loop"}
  /\ i <= Len(normalizedMoves)
  /\ ~dryRun
  /\ \E r \in {movePhysicalFile(fs, faults, dirs, fileContentCache, normalizedMoves[i][1],
                                normalizedMoves[i][2])} :
         /\ fs' = r.fs
         /\ dirs' = r.dirs
         /\ fileContentCache' = r.cache
         /\ IF r.ok
              THEN /\ renames' = renames \cup {i}
                   /\ reported' = reported
                   /\ pc' = "moved"
                   /\ i' = i
              ELSE /\ renames' = renames
                   /\ reported' = reported \cup {Rep("error", "move", normalizedMoves[i][1])}
                   /\ pc' = "loop"
                   /\ i' = i + 1
  /\ UNCHANGED <<history, tasks, moves, dryRun, verbose, faults, fs0, fileMoves, fileMoveMap, normalizedMoves,
                 sourceFiles, inverted, scanned, importAnalysis, updated, updatedFiles,
                 deadFiles, astCache, writes, decisions, fnArg, fnRes>>

\* MoveFile without the try around the loop body: a rename that throws ends the run
MoveFileExits ==
  /\ pc = "loop"
  /\ i <= Len(normalizedMoves)
  /\ ~dryRun
  /\ \E r \in {movePhysicalFile(fs, faults, dirs, fileContentCache, normalizedMoves[i][1],
                                normalizedMoves[i][2])} :
         /\ fs' = r.fs
         /\ dirs' = r.dirs
         /\ fileContentCache' = r.cache
         /\ IF r.ok
              THEN /\ renames' = renames \cup {i}
                   /\ reported' = reported
                   /\ pc' = "moved"
                   /\ i' = i
              ELSE /\ renames' = renames
                   /\ reported' = reported \cup {Rep("error", "move", normalizedMoves[i][1])}
                   /\ pc' = "exit"
                   /\ i' = i
  /\ UNCHANGED <<history, tasks, moves, dryRun, verbose, faults, fs0, fileMoves, fileMoveMap, normalizedMoves, sourceFiles,
                 inverted, scanned, importAnalysis, updated, updatedFiles, deadFiles,
                 astCache, writes, decisions, fnArg, fnRes>>

\* Line 271: movePhysicalFile; a rename that throws is caught by the loop, which
\* continues with the next move
MoveFile ==
  /\ pc = "loop"
  /\ i <= Len(normalizedMoves)
  /\ ~dryRun
  /\ \E r \in {movePhysicalFile(fs, faults, dirs, fileContentCache, normalizedMoves[i][1],
                                normalizedMoves[i][2])} :
         /\ fs' = r.fs
         /\ dirs' = r.dirs
         /\ fileContentCache' = r.cache
         /\ IF r.ok
              THEN /\ renames' = renames \cup {i}
                   /\ reported' = reported
                   /\ pc' = "moved"
                   /\ i' = i
              ELSE /\ renames' = renames
                   /\ reported' = reported \cup {Rep("error", "move", normalizedMoves[i][1])}
                   /\ pc' = "loop"
                   /\ i' = i + 1
  /\ UNCHANGED <<history, tasks, moves, dryRun, verbose, faults, fs0, fileMoves, fileMoveMap, normalizedMoves, sourceFiles,
                 inverted, scanned, importAnalysis, updated, updatedFiles, deadFiles,
                 astCache, writes, decisions, fnArg, fnRes>>

\* Lines 279-297: updateImportsInMovedFile, then the dead-file accounting
UpdateMovedFile ==
  /\ pc = "moved"
  /\ \E r \in {updateImportsInMovedFile(fs, faults, fileMoveMap, normalizedMoves[i][1],
                                        normalizedMoves[i][2])} :
         /\ reported' = IF r.error
                           THEN reported \cup {Rep("error", "movedFile", normalizedMoves[i][2])}
                         ELSE IF r.unparsed /\ verbose
                           THEN reported \cup {Rep("warn", "parse", normalizedMoves[i][2])}
                         ELSE reported
         /\ fs' = r.fs
         /\ writes' = IF r.wrote THEN writes \cup {normalizedMoves[i][2]} ELSE writes
         /\ decisions' = decisions \cup r.log
  /\ deadFiles' = IF updatedFiles > 0 THEN deadFiles
                  ELSE Append(deadFiles, normalizedMoves[i][1])
  /\ i' = i + 1
  /\ pc' = "loop"
  /\ UNCHANGED <<history, tasks, moves, dryRun, verbose, faults, dirs, fs0, fileMoves, fileMoveMap, normalizedMoves,
                 sourceFiles, inverted, scanned, importAnalysis, updated, updatedFiles,
                 fileContentCache, astCache, renames, fnArg, fnRes>>

\* Lines 311-326: the loop is over; the dead files are reported
Finish ==
  /\ pc = "loop"
  /\ i > Len(normalizedMoves)
  /\ pc' = "done"
  /\ UNCHANGED <<history, tasks, moves, dryRun, verbose, faults, reported, fs, dirs, fs0, fileMoves, fileMoveMap, normalizedMoves,
                 sourceFiles, inverted, scanned, importAnalysis, updated, updatedFiles, i,
                 deadFiles, fileContentCache, astCache, writes, renames, decisions,
                 fnArg, fnRes>>

Next ==
  \/ Expand
  \/ Validate
  \/ Discover
  \/ \E f \in sourceFiles : ScanFile(f)
  \/ \E f \in DOMAIN importAnalysis : UpdateFile(f)
  \/ DryRunMove
  \/ MoveFile
  \/ UpdateMovedFile
  \/ Finish

Spec == Init /\ [][Next]_vars

\* The tool is run again, on the disk the first batch left, with every move of
\* the first batch reversed.  A run is a new process: its caches start empty.
ReverseBatch ==
  /\ pc = "done"
  /\ history = <<>>
  /\ ~dryRun
  /\ renames # {}
  /\ history' = <<fs0>>
  /\ moves' = [k \in 1..Len(moves) |-> <<moves[k][2], moves[k][1]>>]
  /\ fs0' = fs
  /\ fileMoves' = <<>>
  /\ fileMoveMap' = EmptyMap
  /\ normalizedMoves' = <<>>
  /\ sourceFiles' = {}
  /\ inverted' = EmptyMap
  /\ scanned' = {}
  /\ importAnalysis' = EmptyMap
  /\ updated' = {}
  /\ updatedFiles' = 0
  /\ i' = 1
  /\ deadFiles' = <<>>
  /\ fileContentCache' = EmptyMap
  /\ astCache' = EmptyMap
  /\ writes' = {}
  /\ renames' = {}
  /\ decisions' = {}
  /\ pc' = "expand"
  /\ reported' = {}
  /\ UNCHANGED <<tasks, dryRun, verbose, faults, fs, dirs, fnArg, fnRes>>

NextTwice ==
  \/ Next
  \/ ReverseBatch

SpecTwice == Init /\ [][NextTwice]_vars

----------------------------------------------------------------------------
(* main: the batch is read from a JSON file *)

\* JSON values: what JSON.parse returns, or the failure to parse
JStr(p) == [t |-> "string", v |-> p]

JNum(n) == [t |-> "number", v |-> n]

JArr(items) == [t |-> "array", v |-> items]

JObj == [t |-> "object", v |-> <<>>]

JBad == [t |-> "SyntaxError", v |-> <<>>]

\* the JSON text of a batch
JsonOf(ms) == JArr([k \in 1..Len(ms) |-> JArr(<<JStr(ms[k][1]), JStr(ms[k][2])>>)])

\* the inputs of main for a scenario: its batch, and the batch spoilt
JsonInputs(ms) ==
  {JsonOf(ms), JBad, JObj, JStr(ms[1][1]),
   JArr(<<JArr(<<JStr(ms[1][1])>>)>>),
   JArr(<<JArr(<<JStr(ms[1][1]), JStr(ms[1][2]), JStr(ms[1][2])>>)>>),
   JArr(<<JArr(<<JStr(ms[1][1]), JNum(1)>>)>>),
   JArr(JsonOf(ms).v \o <<JStr(ms[1][1])>>)}

\* the test of main on the parsed value: an array of pairs of strings
IsMoveList(j) ==
  /\ j.t = "array"
  /\ \A k \in 1..Len(j.v) :
       /\ j.v[k].t = "array"
       /\ Len(j.v[k].v) = 2
       /\ j.v[k].v[1].t = "string"
       /\ j.v[k].v[2].t = "string"

InitMain ==
  /\ \E sc \in Scenarios, absolute \in BOOLEAN :
       /\ \E j \in JsonInputs([k \in 1..Len(sc.moves) |->
                                 IF absolute THEN sc.moves[k]
                                 ELSE <<RelativeToCwd(sc.moves[k][1]),
                                        RelativeToCwd(sc.moves[k][2])>>]) :
            fnArg = [op |-> "main", json |-> j]
       /\ \E subject \in sc.refs :
            \E text \in HardTexts(subject.rel) : fs = Disk(sc, subject, text)
  /\ moves = <<>>
  /\ verbose = FALSE
  /\ faults = {}
  /\ dryRun \in BOOLEAN
  /\ Fresh
  /\ pc = "main"

\* Lines 477-499: read and parse the file, test its shape, run the batch.
\* Whatever is thrown, by the test or by the batch, is caught by the same catch.
main ==
  /\ pc = "main"
  /\ IF IsMoveList(fnArg.json)
       THEN /\ moves' = [k \in 1..Len(fnArg.json.v) |->
                          <<fnArg.json.v[k].v[1].v, fnArg.json.v[k].v[2].v>>]
            /\ reported' = reported
            /\ pc' = "expand"
       ELSE /\ moves' = moves
            /\ reported' = reported \cup {Rep("error", "json", None)}
            /\ pc' = "exit"
  /\ UNCHANGED <<history, tasks, dryRun, verbose, faults, fs, dirs, fs0, fileMoves, fileMoveMap,
                 normalizedMoves, sourceFiles, inverted, scanned, importAnalysis, updated,
                 updatedFiles, i, deadFiles, fileContentCache, astCache, writes, renames,
                 decisions, fnArg, fnRes>>

NextMain ==
  \/ main
  \/ Next

SpecMain == InitMain /\ [][NextMain]_vars

----------------------------------------------------------------------------
(* The scan and update tasks, step by step.  Each task runs until it awaits
   the disk; the disk answers the waiting tasks in any order. *)

InitTasks ==
  /\ \E sc \in Scenarios, absolute \in BOOLEAN :
       /\ moves = [k \in 1..Len(sc.moves) |->
                     IF absolute THEN sc.moves[k]
                     ELSE <<RelativeToCwd(sc.moves[k][1]), RelativeToCwd(sc.moves[k][2])>>]
       /\ \E subject \in sc.refs :
            /\ \E text \in HardTexts(subject.rel) : fs = Disk(sc, subject, text)
            /\ faults \in FaultSets(sc, subject.file)
  /\ verbose = FALSE
  /\ dryRun \in BOOLEAN
  /\ Fresh
  /\ pc = "expand"
  /\ fnArg = NoFn

Task(at, path, content) == [at |-> at, path |-> path, content |-> content]

\* a task has returned: it waits for nothing any more
Done(f) == [g \in DOMAIN tasks \ {f} |-> tasks[g]]

\* analyzeImportsWithTracking, line 837: fs.readFile answers the task of f
ScanRead(f) ==
  /\ pc = "scan"
  /\ f \in sourceFiles \ scanned
  /\ f \notin DOMAIN tasks
  /\ IF Fails(faults, "read", f)
       THEN /\ reported' = IF \E m \in 1..Len(fileMoves) : fileMoves[m][1] = pathNormalize(f)
                              THEN reported
                              ELSE reported \cup {Rep("warn", "read", f)}
            /\ scanned' = scanned \cup {f}
            /\ tasks' = tasks
            /\ pc' = IF scanned' # sourceFiles THEN "scan"
                     ELSE IF DOMAIN importAnalysis = {} THEN "loop" ELSE "update"
       ELSE /\ tasks' = FsPut(tasks, f, Task("parse", f, fs[f]))
            /\ UNCHANGED <<reported, scanned, pc>>
  /\ UNCHANGED <<history, moves, dryRun, verbose, faults, fs, dirs, fs0, fileMoves, fileMoveMap,
                 normalizedMoves, sourceFiles, inverted, importAnalysis, updated, updatedFiles,
                 i, deadFiles, fileContentCache, astCache, writes, renames, decisions,
                 fnArg, fnRes>>

\* lines 839-854: findDependencyImports on the text that was read
ScanParse(f) ==
  /\ pc = "scan"
  /\ f \in DOMAIN tasks
  /\ \E r \in {findDependencyImports(fileMoveMap,
                                      IF f \in DOMAIN astCache THEN astCache[f] ELSE <<>>,
                                      tasks[f].content, inverted, f)} :
         /\ astCache' = IF r.ast # <<>> THEN FsPut(astCache, f, r.ast) ELSE astCache
         /\ importAnalysis' = IF r.imports # <<>> THEN FsPut(importAnalysis, f, r.imports)
                                ELSE importAnalysis
         /\ reported' = IF r.unparsed /\ verbose THEN reported \cup {Rep("warn", "parse", f)}
                         ELSE reported
  /\ scanned' = scanned \cup {f}
  /\ tasks' = Done(f)
  /\ pc' = IF scanned' # sourceFiles THEN "scan"
           ELSE IF DOMAIN importAnalysis' = {} THEN "loop" ELSE "update"
  /\ UNCHANGED <<history, moves, dryRun, verbose, faults, fs, dirs, fs0, fileMoves, fileMoveMap,
                 normalizedMoves, sourceFiles, inverted, updated, updatedFiles, i, deadFiles,
                 fileContentCache, writes, renames, decisions, fnArg, fnRes>>

\* readFileWithValidation, lines 50-57: the path that is read for filePath
LatestPath(fmm, filePath) ==
  IF checkIfFileIsPartOfMove(fmm, filePath) /\ MapGet(fmm, filePath) # None
    THEN MapGet(fmm, filePath) ELSE filePath

\* the task of f has returned with result ok; error: something was caught
Returned(f, ok, error) ==
  /\ updated' = updated \cup {f}
  /\ updatedFiles' = updatedFiles + (IF ok THEN 1 ELSE 0)
  /\ reported' = IF error THEN reported \cup {Rep("error", "update", f)} ELSE reported
  /\ pc' = IF updated' = DOMAIN importAnalysis THEN "loop" ELSE "update"

\* updateImportsInFile from the for loop to the call of fs.writeFile, on the
\* text content: the task returns, or it awaits the write of the new text
LoopThenWrite(f, content) ==
  \E lp \in {UpdateLoop(importAnalysis[f], 1, f, content, FALSE, {})} :
    /\ decisions' = decisions \cup lp.log
    /\ IF lp.threw \/ ~lp.hasChanges
         THEN /\ tasks' = Done(f)
              /\ Returned(f, FALSE, lp.threw)
         ELSE /\ tasks' = FsPut(tasks, f, Task("write", f, lp.content))
              /\ UNCHANGED <<updated, updatedFiles, reported, pc>>

\* readFileWithValidation, lines 59-78: fs.access answers; the cache is asked,
\* and on a miss fs.readFile is called
UpdateAccess(f) ==
  /\ pc = "update"
  /\ f \in DOMAIN importAnalysis \ updated
  /\ f \notin DOMAIN tasks
  /\ \E path \in {LatestPath(fileMoveMap, f)} :
       IF ~IsFile(fs, path)
         THEN /\ tasks' = tasks
              /\ decisions' = decisions
              /\ Returned(f, FALSE, TRUE)
       ELSE IF path \in DOMAIN fileContentCache /\ fileContentCache[path] # <<>>
         THEN LoopThenWrite(f, fileContentCache[path])
       ELSE /\ tasks' = FsPut(tasks, f, Task("read", path, <<>>))
            /\ UNCHANGED <<decisions, updated, updatedFiles, reported, pc>>
  /\ UNCHANGED <<history, moves, dryRun, verbose, faults, fs, dirs, fs0, fileMoves, fileMoveMap,
                 normalizedMoves, sourceFiles, inverted, scanned, importAnalysis, i,
                 deadFiles, fileContentCache, astCache, writes, renames, fnArg, fnRes>>

\* lines 78-80, then updateImportsInFile lines 93-118: fs.readFile answers,
\* the text is put in the cache and the loop runs on it
UpdateRead(f) ==
  /\ pc = "update"
  /\ f \in DOMAIN tasks
  /\ tasks[f].at = "read"
  /\ IF Fails(faults, "read", tasks[f].path) \/ ~IsFile(fs, tasks[f].path)
       THEN /\ tasks' = Done(f)
            /\ UNCHANGED <<decisions, fileContentCache>>
            /\ Returned(f, FALSE, TRUE)
       ELSE /\ fileContentCache' = FsPut(fileContentCache, tasks[f].path, fs[tasks[f].path])
            /\ LoopThenWrite(f, fs[tasks[f].path])
  /\ UNCHANGED <<history, moves, dryRun, verbose, faults, fs, dirs, fs0, fileMoves, fileMoveMap,
                 normalizedMoves, sourceFiles, inverted, scanned, importAnalysis, i,
                 deadFiles, astCache, writes, renames, fnArg, fnRes>>

\* UpdateWrite with the path of the write kept in a variable that the tasks
\* share: the text of one task may land on the file of another
UpdateWriteShared(f) ==
  /\ pc = "update"
  /\ f \in DOMAIN tasks
  /\ tasks[f].at = "write"
  /\ IF Fails(faults, "write", f)
       THEN /\ tasks' = Done(f)
            /\ UNCHANGED <<fs, writes>>
            /\ Returned(f, FALSE, TRUE)
       ELSE /\ \E g \in DOMAIN importAnalysis :
                 /\ fs' = FsPut(fs, g, tasks[f].content)
                 /\ writes' = writes \cup {g}
            /\ tasks' = FsPut(tasks, f, Task("written", f, tasks[f].content))
            /\ UNCHANGED <<updated, updatedFiles, reported, pc>>
  /\ UNCHANGED <<history, moves, dryRun, verbose, faults, dirs, fs0, fileMoves, fileMoveMap,
                 normalizedMoves, sourceFiles, inverted, scanned, importAnalysis, i,
                 deadFiles, fileContentCache, astCache, renames, decisions, fnArg, fnRes>>

\* updateImportsInFile, line 118: fs.writeFile puts the new text on the disk,
\* or fails, which is caught
UpdateWrite(f) ==
  /\ pc = "update"
  /\ f \in DOMAIN tasks
  /\ tasks[f].at = "write"
  /\ IF Fails(faults, "write", f)
       THEN /\ tasks' = Done(f)
            /\ UNCHANGED <<fs, writes>>
            /\ Returned(f, FALSE, TRUE)
       ELSE /\ fs' = FsPut(fs, f, tasks[f].content)
            /\ writes' = writes \cup {f}
            /\ tasks' = FsPut(tasks, f, Task("written", f, tasks[f].content))
            /\ UNCHANGED <<updated, updatedFiles, reported, pc>>
  /\ UNCHANGED <<history, moves, dryRun, verbose, faults, dirs, fs0, fileMoves, fileMoveMap,
                 normalizedMoves, sourceFiles, inverted, scanned, importAnalysis, i,
                 deadFiles, fileContentCache, astCache, renames, decisions, fnArg, fnRes>>

\* UpdateWritten without line 124: the cache keeps the text read before the write
UpdateWrittenCacheKept(f) ==
  /\ pc = "update"
  /\ f \in DOMAIN tasks
  /\ tasks[f].at = "written"
  /\ fileContentCache' = fileContentCache
  /\ tasks' = Done(f)
  /\ Returned(f, TRUE, FALSE)
  /\ UNCHANGED <<history, moves, dryRun, verbose, faults, fs, dirs, fs0, fileMoves, fileMoveMap,
                 normalizedMoves, sourceFiles, inverted, scanned, importAnalysis, i,
                 deadFiles, astCache, writes, renames, decisions, fnArg, fnRes>>

\* updateImportsInFile, lines 120-125: the task goes on after the write, the
\* cache entry of the file is replaced by the new text, and true is returned
UpdateWritten(f) ==
  /\ pc = "update"
  /\ f \in DOMAIN tasks
  /\ tasks[f].at = "written"
  /\ fileContentCache' = FsPut(fileContentCache, f, tasks[f].content)
  /\ tasks' = Done(f)
  /\ Returned(f, TRUE, FALSE)
  /\ UNCHANGED <<history, moves, dryRun, verbose, faults, fs, dirs, fs0, fileMoves, fileMoveMap,
                 normalizedMoves, sourceFiles, inverted, scanned, importAnalysis, i,
                 deadFiles, astCache, writes, renames, decisions, fnArg, fnRes>>

NextTasks ==
  \/ Expand
  \/ Validate
  \/ Discover
  \/ \E f \in sourceFiles : ScanRead(f)
  \/ \E f \in sourceFiles : ScanParse(f)
  \/ \E f \in DOMAIN importAnalysis : UpdateAccess(f)
  \/ \E f \in DOMAIN importAnalysis : UpdateRead(f)
  \/ \E f \in DOMAIN importAnalysis : UpdateWrite(f)
  \/ \E f \in DOMAIN importAnalysis : UpdateWritten(f)
  \/ DryRunMove
  \/ MoveFile
  \/ UpdateMovedFile
  \/ Finish

SpecTasks == InitTasks /\ [][NextTasks]_vars

----------------------------------------------------------------------------
(* The functions of importUtils.ts applied on their own *)

\* the paths the functions are applied to
FnPaths ==
  {Helper, Button, Card, AppFile, FooIndex, Script,
   Main(<<"shared", "helper">>, "ts"), Main(<<"components", "ui", "helper">>, "ts"),
   Main(<<"components", "Icon">>, "tsx"), Main(<<"utils", "legacy">>, "js"),
   Main(<<"utils", "helper">>, "tsx"),
   Main(<<"assets", "icon">>, "png"), Core(<<"utils", "helper">>, "ts"),
   App(<<"utils", "helper">>, "ts"), RelativeToCwd(Helper),
   RelativeToCwd(Core(<<"utils", "helper">>, "ts")),
   RelativeToCwd(App(<<"utils", "helper">>, "ts"))}

\* the literals a referencing file may hold for a target
FnLiterals == {Lit(<<".", "utils", "helper">>), Lit(<<"..", "utils", "helper">>), HelperAlias}

FnReferrers == {Button, Card, AppFile}

\* the statements of the text handed to the rewriter, all holding the old literal
FnTexts == {<<Static>>, <<Require>>, <<Static, Require>>}

\* the literals handed to matchesTarget: with and without an extension, aliased,
\* relative to the working directory, and to files that are not moved
FnMatchLiterals ==
  {P(<<"..", "utils", "helper">>, e) : e \in {"", "ts", "js", "tsx"}}
    \cup {P(<<"..", "foo", "index">>, e) : e \in {"", "ts", "js"}}
    \cup {Lit(<<"..", "foo">>), Lit(<<"..", "utils", "other">>), HelperAlias, React,
          Lit(<<"@ms", "powerva-main", "lib", ".", "utils", "helper">>),
          Lit(<<"packages", "powerva-main", "src", "utils", "helper">>),
          Lit(<<"utils", "helper">>)}

\* the statements of the texts handed to findDependencyImports: every shape the
\* scanner has a visitor for, an export with names, a template argument, a comment
FnScanShapes ==
  {Static, ExportAll, ExportNamed, Require, Dynamic, JestMock, LoadableImport,
   RequireTemplate, Comment,
   Shape("Import", "import(", 0, "back", ")"), Shape("Loadable", "import(", 0, "back", ")")}

FnInputs ==
  [op : {"fileMoveDirection"}, oldPath : FnPaths, newPath : FnPaths]
    \cup [op : {"findDependencyImports"}, currentFile : {Button},
          importPath : {Lit(<<"..", "utils", "helper">>)},
          oldPath : {Helper}, newPath : {Main(<<"shared", "helper">>, "ts")},
          shapes : SeqsUpTo(FnScanShapes, 2) \ {<<>>}]
    \cup [op : {"matchesTarget"}, currentFile : FnReferrers, importPath : FnMatchLiterals,
          oldPath : {Helper, FooIndex}, newPath : {Main(<<"shared", "helper">>, "ts")}]
    \cup [op : {"getRelativeImportPath"}, fromFile : FnReferrers, toFile : FnPaths]
    \cup [op : {"handlePackageImportsUpdate"}, currentImportPath : FnLiterals,
          currentFilePath : FnReferrers,
          newPath : {p \in FnPaths : IsAbsolute(p)} \ {Script},
          shapes : FnTexts]

InitFn ==
  /\ fnArg \in FnInputs
  /\ fnRes = NoFn
  /\ pc = "fn"
  /\ history = <<>>
  /\ moves = <<>>
  /\ dryRun = FALSE
  /\ verbose = FALSE
  /\ faults = {}
  /\ reported = {}
  /\ tasks = EmptyMap
  /\ fs = EmptyMap
  /\ dirs = {}
  /\ fs0 = EmptyMap
  /\ fileMoves = <<>>
  /\ fileMoveMap = EmptyMap
  /\ normalizedMoves = <<>>
  /\ sourceFiles = {}
  /\ inverted = EmptyMap
  /\ scanned = {}
  /\ importAnalysis = EmptyMap
  /\ updated = {}
  /\ updatedFiles = 0
  /\ i = 1
  /\ deadFiles = <<>>
  /\ fileContentCache = EmptyMap
  /\ astCache = EmptyMap
  /\ writes = {}
  /\ renames = {}
  /\ decisions = {}

batchVars ==
  <<history, tasks, moves, dryRun, verbose, faults, reported, fs, dirs, fs0, fileMoves, fileMoveMap, normalizedMoves, sourceFiles,
    inverted, scanned, importAnalysis, updated, updatedFiles, i, deadFiles,
    fileContentCache, astCache, writes, renames, decisions, pc>>

CallFileMoveDirection ==
  /\ pc = "fn" /\ fnRes = NoFn /\ fnArg.op = "fileMoveDirection"
  /\ fnRes' = [op |-> fnArg.op,
               direction |-> fileMoveDirection(fnArg.oldPath, fnArg.newPath)]
  /\ UNCHANGED <<batchVars, fnArg>>

CallGetRelativeImportPath ==
  /\ pc = "fn" /\ fnRes = NoFn /\ fnArg.op = "getRelativeImportPath"
  /\ fnRes' = [op |-> fnArg.op,
               path |-> getRelativeImportPath(fnArg.fromFile, fnArg.toFile)]
  /\ UNCHANGED <<batchVars, fnArg>>

CallHandlePackageImportsUpdate ==
  /\ pc = "fn" /\ fnRes = NoFn /\ fnArg.op = "handlePackageImportsUpdate"
  /\ fnRes' = [op |-> fnArg.op,
               result |-> handlePackageImportsUpdate(
                            fnArg.currentImportPath, fnArg.currentFilePath, fnArg.newPath,
                            [k \in 1..Len(fnArg.shapes) |->
                               Stmt(fnArg.shapes[k], fnArg.currentImportPath)])]
  /\ UNCHANGED <<batchVars, fnArg>>

\* the same call once more, on the text the first call returned
CallHandlePackageImportsUpdateAgain ==
  /\ pc = "fn" /\ fnRes # NoFn /\ fnRes.op = "handlePackageImportsUpdate"
  /\ ~fnRes.result.threw
  /\ fnRes' = [op |-> "handlePackageImportsUpdate again",
               first |-> fnRes.result,
               result |-> handlePackageImportsUpdate(
                            fnArg.currentImportPath, fnArg.currentFilePath, fnArg.newPath,
                            fnRes.result.updatedFileContent)]
  /\ UNCHANGED <<batchVars, fnArg>>

\* matchesTarget on the index and the move map that the batch <<oldPath, newPath>>
\* gives (part_014 lines 116-122 and 164-181)
CallMatchesTarget ==
  /\ pc = "fn" /\ fnRes = NoFn /\ fnArg.op = "matchesTarget"
  /\ \E index \in {Invert(<<<<fnArg.oldPath, fnArg.newPath>>>>, 1, EmptyMap)} :
       fnRes' = [op |-> fnArg.op,
                 keys |-> DOMAIN index,
                 newPath |-> matchesTarget(
                               MapOf(<<<<fnArg.oldPath, fnArg.newPath>>,
                                       <<removeExtension(fnArg.oldPath),
                                         removeExtension(fnArg.newPath)>>>>),
                               fnArg.currentFile, fnArg.importPath, index)]
  /\ UNCHANGED <<batchVars, fnArg>>

\* findDependencyImports on a text whose statements all hold importPath, with
\* the index and the move map of the batch <<oldPath, newPath>> and no cached tree
CallFindDependencyImports ==
  /\ pc = "fn" /\ fnRes = NoFn /\ fnArg.op = "findDependencyImports"
  /\ fnRes' = [op |-> fnArg.op,
               imports |-> findDependencyImports(
                             MapOf(<<<<fnArg.oldPath, fnArg.newPath>>,
                                     <<removeExtension(fnArg.oldPath),
                                       removeExtension(fnArg.newPath)>>>>),
                             <<>>,
                             [k \in 1..Len(fnArg.shapes) |->
                                Stmt(fnArg.shapes[k], fnArg.importPath)],
                             Invert(<<<<fnArg.oldPath, fnArg.newPath>>>>, 1, EmptyMap),
                             fnArg.currentFile).imports]
  /\ UNCHANGED <<batchVars, fnArg>>

NextFn ==
  \/ CallFindDependencyImports
  \/ CallMatchesTarget
  \/ CallFileMoveDirection
  \/ CallGetRelativeImportPath
  \/ CallHandlePackageImportsUpdate
  \/ CallHandlePackageImportsUpdateAgain

SpecFn == InitFn /\ [][NextFn]_vars

----------------------------------------------------------------------------
(* What a reference means: the vocabulary of the properties *)

\* literal lit, written in the file at path file, denotes the file target
Denotes(file, lit, target) ==
  \/ /\ isRelativeImport(lit)
     /\ LET r == pathResolve(pathDirname(file), lit)
        IN  \/ r = target
            \/ r = removeExtension(target)
            \/ isIndexFile(target) /\ r = pathDirname(target)
  \/ /\ isMonorepoPackageImport(lit)
     /\ getMsImportPath(target) # Throw
     /\ \/ lit = getMsImportPath(target)
        \/ isIndexFile(target) /\ lit = StripIndex(getMsImportPath(target))

\* the moves of the batch that move a file, as absolute paths
FileMoveIndices == {m \in 1..Len(normalizedMoves) : normalizedMoves[m][1] \in DOMAIN fs0}

IsMoved(p) == \E m \in FileMoveIndices : normalizedMoves[m][1] = p

\* where the batch asks the file at p to end up, through chains of moves
RECURSIVE FollowMoves(_, _)
FollowMoves(p, n) ==
  IF n = 0 \/ ~IsMoved(p) THEN p
  ELSE FollowMoves(normalizedMoves[CHOOSE m \in FileMoveIndices :
                                     normalizedMoves[m][1] = p][2], n - 1)

DestOf(p) == FollowMoves(p, Len(normalizedMoves))

\* no move of the batch lands on a file that was there before the batch
CleanBatch == \A m \in 1..Len(normalizedMoves) : normalizedMoves[m][2] \notin DOMAIN fs0

\* where the file that was at p before the batch is after it
Where(p) ==
  IF \E m \in renames : normalizedMoves[m][1] = p
    THEN normalizedMoves[CHOOSE m \in renames : normalizedMoves[m][1] = p][2]
    ELSE p

\* the statements of a text that the tool treats as import-like
ImportLike(text) == {k \in 1..Len(text) : text[k].node \in ImportLikeNodes}

\* the files of the batch's disk that the k-th statement of file0 referred to
Targets(file0, k) == {t \in DOMAIN fs0 : Denotes(file0, fs0[file0][k].lit, t)}

Finished == pc = "done"

----------------------------------------------------------------------------
(* The properties of the batch *)

\* C1: after a batch, no file that was rewritten holds an import-like statement
\* whose literal still is an old address of a moved file, whatever the shapes of
\* the statements the literal occurs in.
C1_NoDanglingReference ==
  Finished =>
    \A f \in writes \cap DOMAIN fs :
      \A k \in ImportLike(fs[f]) :
        \A m \in FileMoveIndices : ~Denotes(f, fs[f][k].lit, normalizedMoves[m][1])

\* C2: a rewrite changes only the literal of import-like statements that referred
\* to a moved file: the quote, the text around the literal, every other literal
\* and everything outside the import-like statements (comments) stay as they were.
C2_OnlyMatchedLiteralsChange ==
  \A f \in DOMAIN fs0 \cap DOMAIN fs :
    (CleanBatch /\ ~IsMoved(f)) =>
      /\ Len(fs[f]) = Len(fs0[f])
      /\ \A k \in 1..Len(fs0[f]) :
           /\ [fs[f][k] EXCEPT !.lit = fs0[f][k].lit] = fs0[f][k]
           /\ fs[f][k].lit # fs0[f][k].lit =>
                /\ k \in ImportLike(fs0[f])
                /\ \E t \in Targets(f, k) : IsMoved(t)

\* C3: with dry-run on, no file is written and none is renamed: the disk stays
\* as it was before the batch.
C3_DryRunChangesNothing ==
  dryRun => fs = fs0 /\ writes = {} /\ renames = {}

\* C4: after a batch, every relative import-like reference inside a moved file
\* denotes, from the file's new directory, the file it denoted from the old one,
\* at that file's final destination when it is moved in the same batch.
C4_MovedFileReferencesFollow ==
  (Finished /\ ~dryRun /\ CleanBatch) =>
    \A m \in FileMoveIndices \cap renames :
      LET old == normalizedMoves[m][1]
          new == normalizedMoves[m][2]
      IN  new \in DOMAIN fs =>
            \A k \in ImportLike(fs0[old]) :
              isRelativeImport(fs0[old][k].lit) =>
                \A t \in Targets(old, k) : Denotes(new, fs[new][k].lit, DestOf(t))

\* C5: the move map follows chains: a reference to A in a batch that moves A to B
\* and B to C is rewritten towards C, so the destination every rewrite decision
\* uses is a final one, never the source of another move of the batch.
C5_MoveMapFollowsChains ==
  \A d \in decisions : d.newPath # None => DestOf(d.newPath) = d.newPath

IsPackage(p) == getModuleType(p) # NoModule /\ getModuleType(p).moduleType[1] = "packages"

IsApp(p) == getModuleType(p) # NoModule /\ getModuleType(p).moduleType[1] = "apps"

\* the reference from file to target crosses from one package into another
CrossModule(file, target) ==
  /\ IsPackage(file)
  /\ IsPackage(target)
  /\ getModuleType(file).moduleName # getModuleType(target).moduleName

\* C7: after a batch, every reference that the batch made or left cross-module
\* (the referencing file or the file referred to moved, and the two now lie in
\* different packages) is the aliased form of the target's new location.
C7_CrossModuleIsAliased ==
  (Finished /\ ~dryRun /\ CleanBatch) =>
    \A f \in DOMAIN fs0 :
      Where(f) \in DOMAIN fs =>
        \A k \in ImportLike(fs0[f]) :
          \A t \in Targets(f, k) :
            ((IsMoved(f) \/ IsMoved(t)) /\ CrossModule(Where(f), DestOf(t))) =>
              /\ isMonorepoPackageImport(fs[Where(f)][k].lit)
              /\ Denotes(Where(f), fs[Where(f)][k].lit, DestOf(t))

\* C9: a reference from a package file to a file moved into an application is
\* not rewritten: no decision for it updates the text, each one warns, and the
\* referencing file is not written.
C9_UnsupportedBoundaryUntouched ==
  \A d \in decisions :
    (d.newPath # None /\ IsPackage(d.file) /\ IsApp(d.newPath)) =>
      /\ ~d.updated
      /\ d.warned
      /\ d.file \notin writes

\* the k-th statement of f imports the directory of the index file t
DirectoryForm(f, k, t) ==
  /\ isIndexFile(t)
  /\ Denotes(f, fs0[f][k].lit, t)
  /\ Last(fs0[f][k].lit.d) # "index"

\* C10: when an index file moves, every reference that imports its directory,
\* relative or aliased, is rewritten to import the directory it moved to.
C10_IndexDirectoryFormRewritten ==
  (Finished /\ CleanBatch) =>
    \A f \in DOMAIN fs0 \cap DOMAIN fs :
      ~IsMoved(f) =>
        \A k \in ImportLike(fs0[f]) :
          \A t \in DOMAIN fs0 :
            (IsMoved(t) /\ DirectoryForm(f, k, t)) =>
              /\ Denotes(f, fs[f][k].lit, DestOf(t))
              /\ Last(fs[f][k].lit.d) # "index"

----------------------------------------------------------------------------
(* The properties of the functions *)

SourceExtensions == {"ts", "tsx", "js", "jsx"}

\* C6: for a Self reference the new literal begins with "./" or "../", leads from
\* the referencing file's directory to the target's new location, and carries the
\* target's extension only when the target is not a source file.
C6_SelfLiteralIsRelative ==
  (fnRes # NoFn /\ fnRes.op = "handlePackageImportsUpdate"
     /\ fnRes.result.direction = "self") =>
    LET u == fnRes.result.updatedImportPath
    IN  /\ ~fnRes.result.threw
        /\ isRelativeImport(u)
        /\ pathResolve(pathDirname(fnArg.currentFilePath), P(u.d, ""))
             = pathResolve(Cwd, removeExtension(fnArg.newPath))
        /\ u.e = (IF fnArg.newPath.e \in SourceExtensions THEN "" ELSE fnArg.newPath.e)

\* the direction the classification rules give a pair of paths
ExpectedDirection(oldPath, newPath) ==
  IF getModuleType(oldPath) = NoModule \/ getModuleType(newPath) = NoModule
    THEN {"unknown"}
  ELSE IF getModuleType(oldPath) = getModuleType(newPath) THEN {"self"}
  ELSE IF CrossModule(oldPath, newPath) THEN {"betweenPackages"}
  ELSE IF (IsPackage(oldPath) /\ IsApp(newPath)) \/ (IsApp(oldPath) /\ IsPackage(newPath))
    THEN {"unknown"}
  ELSE {"self", "betweenPackages", "unknown"}

\* C8: every pair of paths gets a direction: Self within one module, CrossModule
\* between two packages, and unknown for a package and an application, in either
\* order, and whenever one of the paths lies under no module root.
C8_DirectionOfEveryPair ==
  (fnRes # NoFn /\ fnRes.op = "fileMoveDirection") =>
    fnRes.direction \in ExpectedDirection(fnArg.oldPath, fnArg.newPath)

\* C11: rewriting is idempotent: the rewrite applied to the text it has already
\* updated edits nothing, and a rewrite whose new literal equals the old one
\* reports no update (so that the file is not written).
C11_RewriteIsIdempotent ==
  /\ (fnRes # NoFn /\ fnRes.op = "handlePackageImportsUpdate again") =>
        /\ ~fnRes.result.updated
        /\ fnRes.result.updatedFileContent = fnRes.first.updatedFileContent
  /\ (fnRes # NoFn /\ fnRes.op = "handlePackageImportsUpdate"
        /\ fnRes.result.updatedImportPath = fnArg.currentImportPath) =>
        ~fnRes.result.updated

\* C12: a batch followed by the batch of the reversed moves restores every file
\* that was not itself moved to the text it had before the first batch.
C12_RoundTripRestoresContent ==
  (Finished /\ Len(history) = 1 /\ DOMAIN fs = DOMAIN history[1]) =>
    \A f \in DOMAIN fs :
      (\A m \in 1..Len(normalizedMoves) : normalizedMoves[m][2] # f) =>
        fs[f] = history[1][f]

\* the moves on whose behalf a decision of the referencing-file rewrite is taken
MovesServed(d) == {m \in 1..Len(fileMoves) : fileMoves[m][2] = d.newPath}

----------------------------------------------------------------------------
(* C14: failures of the file system *)

\* the run was ended by process.exit(1) after a path could not be found
Aborted == pc = "exit" /\ \E r \in reported : r.at \in {"expand", "validate"}

\* the moves the loop has dealt with
Processed == 1..(i - 1)

----------------------------------------------------------------------------
(* C15: moves that are not valid *)

\* the destination of move m held a file when the batch began
Occupied(m) == IsFile(fs0, normalizedMoves[m][2])

\* C15: a move whose source does not exist or whose destination is occupied by
\* a file is not performed (no rename) and is reported, and the other moves of
\* the batch are still performed: the run is not ended
C15_InvalidMoveAloneSkipped ==
  /\ \A m \in 1..Len(normalizedMoves) : Occupied(m) =>
       /\ m \notin renames
       /\ pc \notin {"expand", "validate"} =>
            \E r \in reported : r.path = normalizedMoves[m][1]
  /\ ~Aborted

----------------------------------------------------------------------------
(* C16: what reaches the top level *)

\* C16: input that is not an array of [from, to] string pairs ends the run
\* before any file is validated, written or renamed; for input that is such an
\* array no exception escapes from the batch to the top level
C16_OnlyMalformedInputEscapes ==
  /\ ~IsMoveList(fnArg.json) =>
       /\ pc \in {"main", "exit"}
       /\ normalizedMoves = <<>> /\ dirs = {} /\ fs = fs0 /\ writes = {} /\ renames = {}
  /\ IsMoveList(fnArg.json) => Rep("error", "top", None) \notin reported

----------------------------------------------------------------------------
(* C17: no file is left partly rewritten *)

\* the lines of f whose reference matched a move and for which the rewriter
\* decided on another literal
DueLines(f) ==
  {imp.line : imp \in {importAnalysis[f][k] : k \in 1..Len(importAnalysis[f])}}
    \cap {l \in 1..Len(fs0[f]) :
            \E d \in decisions : /\ d.file = f /\ d.importPath = fs0[f][l].lit
                                 /\ d.updated /\ d.updatedImportPath # d.importPath}

\* the lines of f whose literal on disk is no longer the one before the batch
ReplacedLines(f) == {l \in 1..Len(fs0[f]) : fs[f][l].lit # fs0[f][l].lit}

\* C17: at no point does a file on disk hold content in which only some of its
\* matched references have been replaced: of the references of a file that are
\* to be replaced, either none or all are replaced on disk
C17_NoPartlyRewrittenFile ==
  \A f \in DOMAIN importAnalysis \cap DOMAIN fs :
    (f \in DOMAIN fs0 /\ Len(fs[f]) = Len(fs0[f])) =>
      \/ ReplacedLines(f) \cap DueLines(f) = {}
      \/ DueLines(f) \subseteq ReplacedLines(f)

----------------------------------------------------------------------------
(* C18: the caches under concurrent tasks *)

\* the scan tasks or the update tasks are running
Concurrent == pc \in {"scan", "update"}

\* the task of p has written p and has not yet gone on to refresh the cache
WriteAnswerPending(p) == p \in DOMAIN tasks /\ tasks[p].at = "written"

----------------------------------------------------------------------------
(* C19: the dead files *)

\* the moves whose file some scanned file was found to refer to
ReferencedMoves ==
  {m \in 1..Len(fileMoves) :
     \E f \in DOMAIN importAnalysis : \E k \in 1..Len(importAnalysis[f]) :
       importAnalysis[f][k].matchedUpdateToFilePath = fileMoves[m][2]}

\* C19: at the end of the batch the dead-file list holds exactly the moved
\* files to which no scanned file was found to refer, and it is complete only
\* when every move has been processed
C19_DeadFilesAreTheUnreferenced ==
  pc = "done" =>
    /\ Processed = 1..Len(normalizedMoves)
    /\ {deadFiles[k] : k \in 1..Len(deadFiles)} =
         {normalizedMoves[m][1] : m \in renames \ ReferencedMoves}

----------------------------------------------------------------------------
(* C20: files that do not parse *)

\* the text has a line the parser rejects
Unparsable(text) == \E k \in 1..Len(text) : text[k].node = "SyntaxError"

\* no move of the batch but m has path p as its source or destination
OnlyMove(m, p) ==
  \A n \in 1..Len(normalizedMoves) :
    n # m => normalizedMoves[n][1] # p /\ normalizedMoves[n][2] # p

\* the scanned files that do not parse and are still where they were
UnparsedScanned ==
  {f \in scanned \cap DOMAIN fs :
     /\ f \in DOMAIN fs0 /\ Unparsable(fs0[f]) /\ ~Fails(faults, "read", f)
     /\ \A m \in 1..Len(normalizedMoves) : normalizedMoves[m][2] # f}

\* the moves whose file does not parse, was renamed, and has been through
\* updateImportsInMovedFile
UnparsedMoved ==
  {m \in renames \cap Processed :
     /\ IsFile(fs0, normalizedMoves[m][1]) /\ Unparsable(fs0[normalizedMoves[m][1]])
     /\ IsFile(fs, normalizedMoves[m][2]) /\ OnlyMove(m, normalizedMoves[m][2])
     /\ ~Fails(faults, "read", normalizedMoves[m][2])}

\* C20: a scanned file or a moved file that cannot be parsed contributes no
\* references, keeps its content, and a warning is issued for it
C20_UnparsedFileSkippedWithWarning ==
  /\ \A f \in UnparsedScanned :
       /\ f \notin DOMAIN importAnalysis
       /\ fs[f] = fs0[f]
       /\ Rep("warn", "parse", f) \in reported
  /\ \A m \in UnparsedMoved :
       /\ fs[normalizedMoves[m][2]] = fs0[normalizedMoves[m][1]]
       /\ Rep("warn", "parse", normalizedMoves[m][2]) \in reported

\* C20 (amended): a scanned file or a moved file that cannot be parsed
\* contributes no references and keeps its content; the warning is issued if
\* and only if the run is verbose; the failure ends nothing: the scan and the
\* update of the other files are completed and every move is processed
C20_UnparsedFileSkippedWarnedIfVerbose ==
  /\ \A f \in UnparsedScanned :
       /\ f \notin DOMAIN importAnalysis
       /\ f \notin writes /\ fs[f] = fs0[f]
       /\ \A d \in decisions : d.file # f
       /\ Rep("warn", "parse", f) \in reported <=> verbose
  /\ \A m \in UnparsedMoved :
       /\ fs[normalizedMoves[m][2]] = fs0[normalizedMoves[m][1]]
       /\ normalizedMoves[m][2] \notin writes
       /\ Rep("warn", "parse", normalizedMoves[m][2]) \in reported <=> verbose
  /\ (UnparsedScanned # {} \/ UnparsedMoved # {}) =>
       /\ pc # "exit"
       /\ pc \in {"loop", "moved", "done"} =>
            scanned = sourceFiles /\ updated = DOMAIN importAnalysis
       /\ pc = "done" => Processed = 1..Len(normalizedMoves)

\* a verbose run in which one file did not parse and was warned about, and
\* another file was rewritten
C20_UnparsedWarnedOtherRewritten ==
  /\ pc = "done"
  /\ verbose
  /\ \E f \in UnparsedScanned : Rep("warn", "parse", f) \in reported
  /\ \E g \in writes : g \in scanned /\ ~Unparsable(fs0[g])

----------------------------------------------------------------------------
(* Move cycles *)

\* the paths reached from the paths of S by following moves of the batch, n times
RECURSIVE MovedOnTo(_, _)
MovedOnTo(S, n) ==
  IF n = 0 THEN S
  ELSE MovedOnTo(S \cup {normalizedMoves[m][2] :
                           m \in {k \in 1..Len(normalizedMoves) : normalizedMoves[k][1] \in S}},
                 n - 1)

\* some move's destination is moved, directly or through other moves, onto its source
HasMoveCycle ==
  \E m \in 1..Len(normalizedMoves) :
    normalizedMoves[m][1] \in MovedOnTo({normalizedMoves[m][2]}, Len(normalizedMoves))

\* C21: a batch that contains a move cycle is rejected before any rename is
\* performed: in no state of such a batch has a file been renamed, and the batch
\* never reaches the loop over the moves.
C21_CycleRejectedBeforeRename ==
  HasMoveCycle => renames = {} /\ pc \notin {"loop", "moved", "done"}

----------------------------------------------------------------------------
(* The lookup of a literal in the inverted index *)

\* C22: a literal matches a moved file if and only if it is a direct key of the
\* index, or it is a relative literal whose resolution against the containing
\* file's directory, with its extension stripped, is a key of the index; a
\* non-relative literal that is not itself a key is never matched.
C22_MatchIffKeyOrStrippedResolution ==
  fnRes.op = "matchesTarget" =>
    ((fnRes.newPath # None) <=>
       \/ fnArg.importPath \in fnRes.keys
       \/ /\ isRelativeImport(fnArg.importPath)
          /\ removeExtension(pathResolve(pathDirname(fnArg.currentFile), fnArg.importPath))
               \in fnRes.keys)

----------------------------------------------------------------------------
(* The inverted index *)

\* the index has been built
Indexed == pc \in {"scan", "update", "loop", "moved", "done"}

\* C23: no address form is generated for two different moves of a batch, so
\* every key of the inverted index stands for exactly one move and building the
\* index never overwrites a key, also when the batch moves an index file.
C23_NoAddressFormOfTwoMoves ==
  Indexed =>
    \A a, b \in 1..Len(normalizedMoves) :
      normalizedMoves[a][1] # normalizedMoves[b][1] =>
        generateImportPathVariations(normalizedMoves[a][1], Cwd)
          \cap generateImportPathVariations(normalizedMoves[b][1], Cwd) = {}

\* the file at p lies outside every recognized module root
OutsideRoots(p) == MsMatchAt(normalizePath(p).d) = {}

\* C24: for a moved file outside every module root the generation of the
\* address forms is not an error: the run does not end with an exception, and
\* the index holds the absolute and the extension-stripped form of the file.
C24_OutsideRootIsNoError ==
  \A m \in 1..Len(normalizedMoves) :
    OutsideRoots(normalizedMoves[m][1]) /\ pc \notin {"expand", "validate", "discover"} =>
      /\ Rep("error", "top", None) \notin reported
      /\ pc # "exit" =>
           {normalizedMoves[m][1], removeExtension(normalizedMoves[m][1])} \subseteq DOMAIN inverted

----------------------------------------------------------------------------
(* The statement scanner *)

\* the references that the scanner returned for the statement on line k
ReferencesOf(k) == {j \in 1..Len(fnRes.imports) : fnRes.imports[j].line = k}

\* C25: for each recognized statement shape (static import, export-all-from,
\* export-named-from, require, dynamic import, jest.mock, Loadable around a
\* dynamic import) a string-literal source that matches a moved file yields
\* exactly one reference per occurrence, and a template argument yields none.
C25_OneReferencePerOccurrence ==
  fnRes.op = "findDependencyImports" =>
    \A k \in 1..Len(fnArg.shapes) :
      Cardinality(ReferencesOf(k)) =
        IF fnArg.shapes[k].node \in ImportLikeNodes /\ fnArg.shapes[k].q # "back"
          THEN 1 ELSE 0

----------------------------------------------------------------------------
(* The caches and the disk *)

\* the entry that cache holds under old is, after the step, held under new and
\* no longer under old
Rekeyed(cache, cacheAfter, old, new) ==
  old \in DOMAIN cache =>
    /\ new \in DOMAIN cacheAfter
    /\ cacheAfter[new] = cache[old]
    /\ old \notin DOMAIN cacheAfter

\* C26: a physical move of a file whose content or parsed tree is cached under
\* the old path leaves that same entry under the new path and none under the
\* old path.
C26_CachesFollowTheMovedFile ==
  [][pc = "loop" /\ pc' = "moved" =>
       /\ Rekeyed(fileContentCache, fileContentCache', normalizedMoves[i][1],
                  normalizedMoves[i][2])
       /\ Rekeyed(astCache, astCache', normalizedMoves[i][1], normalizedMoves[i][2])]_vars

\* C27: at every point of a batch a content-cache entry for a path equals the
\* content that path has on disk, so that no cached read returns the content a
\* file had before it was rewritten.
C27_CacheEntriesEqualDisk ==
  \A p \in DOMAIN fileContentCache :
    p \in DOMAIN fs /\ fileContentCache[p] = fs[p]

----------------------------------------------------------------------------
(* Substitutions within one file *)

\* the literals that the rewriter decided to put in file f for the literal lit
RewritesOf(f, lit) ==
  {d.updatedImportPath : d \in {e \in decisions : e.file = f /\ e.importPath = lit /\ e.updated}}

\* C28: within one file the substitutions do not interfere: the literal a
\* statement ends with is its original literal or the literal that the rewriter
\* decided for that original literal, never the result of a substitution made
\* for another move.
C28_SubstitutionsDoNotInterfere ==
  \A f \in writes \cap DOMAIN fs \cap DOMAIN fs0 :
    Len(fs[f]) = Len(fs0[f]) =>
      \A k \in 1..Len(fs0[f]) :
        fs[f][k].lit \in {fs0[f][k].lit} \cup RewritesOf(f, fs0[f][k].lit)

----------------------------------------------------------------------------
(* The lookup during the scan *)

\* the keys of the inverted index that the literal lit of file f hits
KeysHit(f, lit) ==
  IF lit \in DOMAIN inverted THEN {lit}
  ELSE {normalizePath(resolveImportPath(f, lit))} \cap DOMAIN inverted

\* the destinations of the moves whose source generated the key
DestinationsOf(key) ==
  {normalizedMoves[m][2] :
     m \in {n \in 1..Len(normalizedMoves) : normalizedMoves[n][1] = inverted[key]}}

\* C29: whenever a literal of a scanned file hits a key of the inverted index,
\* the match returns the destination of the move that generated the key, never
\* null and never another move's destination, for relative and for absolute
\* batch paths.
C29_IndexHitReturnsDestination ==
  Indexed =>
    \A f \in scanned \cap DOMAIN fs0 :
      \A k \in ImportLike(fs0[f]) :
        \A key \in KeysHit(f, fs0[f][k].lit) :
          matchesTarget(fileMoveMap, f, fs0[f][k].lit, inverted) \in DestinationsOf(key)

----------------------------------------------------------------------------
(* The update tasks *)

\* the text that the task of file p computes from the text p had before the batch
OwnRewrite(p) == UpdateLoop(importAnalysis[p], 1, p, fs0[p], FALSE, {}).content

\* C30: during the concurrent update phase each file is read, modified and
\* written by at most one task: no running task works on the file another task
\* writes, and every file written holds the rewrite of its own task, so that no
\* rewrite is lost or overwritten.
C30_EachFileWrittenByItsOwnTask ==
  /\ \A f, g \in DOMAIN tasks :
       f # g /\ tasks[f].at \in {"write", "written"} => tasks[g].path # tasks[f].path
  /\ pc = "update" =>
       \A p \in writes : p \in DOMAIN importAnalysis /\ fs[p] = OwnRewrite(p)

\* two update tasks have written their files and both still run
C30_TwoTasksHaveWritten ==
  /\ pc = "update"
  /\ \E f, g \in DOMAIN tasks :
       /\ f # g
       /\ tasks[f].at = "written" /\ tasks[g].at = "written"
       /\ fs[f] # fs0[f] /\ fs[g] # fs0[g]

====
